---- MODULE Spec2Model ----
(***************************************************************************)
(* Model of the FrameGen Vulkan layer (vulkan_layer.h, the self-contained   *)
(* implementation): the per-device frame-doubling engine, the surface-chain *)
(* tracker and the staging mirror.                                          *)
(*                                                                          *)
(* One device is modelled, in the state onCreateDevice leaves it in.  Each  *)
(* layer entry point is one action.  The next layer (the driver) is an      *)
(* oracle `drv` whose answers are drawn nondeterministically; the calls the *)
(* layer makes to it during the last entry point are kept in `calls`.       *)
(* The host calls one entry point at a time on the device: an entry-point    *)
(* action runs the whole handler and leaves its observation in op, pre,     *)
(* calls and ret; HostContinues drops the observation before the next call. *)
(*                                                                          *)
(* Ghost fields (not in the C++ structs) are kept on the staging images:    *)
(*   layout  - the layout the image is actually in on the device            *)
(*   content - [known, age]: the image holds the game image captured `age`  *)
(*             captures ago (0 = the one captured by the present being      *)
(*             handled, 1 = the one captured by the preceding non-bypass    *)
(*             present); known = FALSE is undefined contents                *)
(*                                                                          *)
(* dev.frameCount and dev.interpCount are only incremented and logged; the  *)
(* model keeps, per call, the increment the call made (op.frames,           *)
(* op.interps) instead of the running totals.                               *)
(***************************************************************************)
EXTENDS Integers, Sequences, FiniteSets, TLC

\* ------------------------------------------------------------------ bounds
MaxAge == 2             \* content ages saturate here ("older than the preceding capture")
MaxSwapchainCount == 2  \* pPresentInfo->swapchainCount ranges over 0..MaxSwapchainCount
MaxImageIndex == 2      \* caller image indices are 0 and MaxImageIndex (out of range)

\* ------------------------------------------------------------------ values
VK_NULL_HANDLE == 0

VK_SUCCESS == "VK_SUCCESS"
VK_SUBOPTIMAL_KHR == "VK_SUBOPTIMAL_KHR"
VK_INCOMPLETE == "VK_INCOMPLETE"
VK_ERROR_OUT_OF_DATE_KHR == "VK_ERROR_OUT_OF_DATE_KHR"
VK_ERROR_OUT_OF_DEVICE_MEMORY == "VK_ERROR_OUT_OF_DEVICE_MEMORY"
VK_ERROR_INITIALIZATION_FAILED == "VK_ERROR_INITIALIZATION_FAILED"

UNDEFINED == "VK_IMAGE_LAYOUT_UNDEFINED"
TRANSFER_SRC == "VK_IMAGE_LAYOUT_TRANSFER_SRC_OPTIMAL"
TRANSFER_DST == "VK_IMAGE_LAYOUT_TRANSFER_DST_OPTIMAL"
PRESENT_SRC == "VK_IMAGE_LAYOUT_PRESENT_SRC_KHR"

\* Results the driver may give to a present or an acquire.
PresentResults == {VK_SUCCESS, VK_SUBOPTIMAL_KHR, VK_ERROR_OUT_OF_DATE_KHR}
\* Outcome of one createStagingImage: both calls succeed, vkCreateImage fails,
\* or vkAllocateMemory fails.
StagingOutcomes == {"ok", "image_fail", "memory_fail"}

\* Surface-chain handles the driver hands out, and the (width, height, format)
\* triples the host asks for.
SwapchainHandles == {1, 2}
ChainConfigs == { [width |-> 1920, height |-> 1080, format |-> 37],
                  [width |-> 1280, height |-> 720,  format |-> 44] }
\* Image counts vkGetSwapchainImagesKHR reports.
ImageCounts == {2}
\* Number of wait semaphores the host passes with a present.
WaitSemaphoreCounts == {1}

Min(a, b) == IF a < b THEN a ELSE b
Max(a, b) == IF a > b THEN a ELSE b

\* ------------------------------------------------------------------ state
VARIABLES
    enabled,      \* VulkanLayer::enabled_
    dev,          \* the DeviceData record of the device
    unaugmented,  \* ghost: handles of tracked chains created by the verbatim retry
    op,           \* ghost: the entry point that has just returned, its arguments and path
    pre,          \* ghost: dev as it was when that entry point was entered
    calls,        \* ghost: next-layer calls that entry point issued, in order
    ret,          \* ghost: what it returned
    pResults,     \* ghost: the caller's pPresentInfo->pResults array when the present returned
    instances_,   \* VulkanLayer::instances_: dispatch key -> InstanceData
    devices_,     \* VulkanLayer::devices_: dispatch key -> DeviceData (registry view)
    liveDevices,  \* ghost: keys whose onCreateDevice succeeded and whose destroy has not returned
    liveInstances,\* ghost: the same for onCreateInstance and onDestroyInstance
    config_,      \* the Config the TimingController points to
    state_,       \* TimingController::state_
    frameHistory_,\* TimingController::frameHistory_
    buffer_,      \* FrameQueue::buffer_: slot -> FrameData, copied member by member
    head_,        \* FrameQueue::head_
    tail_,        \* FrameQueue::tail_
    droppedFrames_, \* FrameQueue::droppedFrames_
    producer,     \* the thread in push: where it is, its locals head, next, frame
    consumer,     \* the thread in pop: where it is, its locals tail, frame
    accepted,     \* ghost: the frames for which push returned true, in order
    popped,       \* ghost: the frames pop returned, in order
    sizer,        \* the thread in size(): who it is, where it is, its local head
    mode,         \* FramePresenter::config_.mode
    previousFrame_,    \* FramePresenter::previousFrame_
    hasPreviousFrame_, \* FramePresenter::hasPreviousFrame_
    presentQueue_q_,   \* FramePresenter::presentQueue_q_, oldest frame first
    taken,        \* ghost: frames interpolationLoop has popped from capturedQueue_
    pushes,       \* ghost: the frames presentQueue_q_.push accepted, in order
    mutex_,       \* VulkanLayer::mutex_: the thread that holds it, or "free"
    threads       \* host threads in the layer: the entry point each runs and its step

\* The variables of the frame-doubling engine, of the registry and of the
\* timing controller; op, pre, calls and ret observe the last call of whichever
\* component the specification at hand drives.
layerVars == <<enabled, dev, unaugmented, pResults>>
registryVars == <<instances_, devices_, liveDevices, liveInstances>>
timingVars == <<config_, state_, frameHistory_>>
presenterVars == <<mode, previousFrame_, hasPreviousFrame_, presentQueue_q_,
                   taken, pushes>>
queueVars == <<buffer_, head_, tail_, droppedFrames_, producer, consumer,
               accepted, popped, sizer, presenterVars>>
lockVars == <<mutex_, threads>>
vars == <<enabled, dev, unaugmented, op, pre, calls, ret, pResults,
          instances_, devices_, liveDevices, liveInstances,
          config_, state_, frameHistory_,
          buffer_, head_, tail_, droppedFrames_, producer, consumer,
          accepted, popped, sizer,
          mode, previousFrame_, hasPreviousFrame_, presentQueue_q_, taken, pushes,
          mutex_, threads>>

\* StagingImage, default-constructed.
NoStagingImage ==
    [image |-> VK_NULL_HANDLE, memory |-> VK_NULL_HANDLE, valid |-> FALSE,
     layout |-> UNDEFINED, content |-> [known |-> FALSE, age |-> 0]]

\* A next-layer call: the function, its arguments, the result it gave.
CallR(fn, params, res) == [fn |-> fn, params |-> params, res |-> res]
\* A next-layer call whose result the model takes to be success.
Call(fn, params) == CallR(fn, params, VK_SUCCESS)

\* ------------------------------------------------------------------ staging mirror
\* Handles the driver returns for the image and memory created into a slot.
NewStagingHandle(slot) == IF slot = "prevFrame" THEN 1 ELSE 2

\* Variant of destroyStagingImage that forgets the memory.
destroyStagingImageOnly(d, slot) ==
    LET img == d[slot]
        c1 == IF img.image # VK_NULL_HANDLE
              THEN <<Call("DestroyImage", img.image)>> ELSE <<>>
    IN [dev   |-> [d EXCEPT ![slot] = NoStagingImage],
        calls |-> c1]

\* destroyStagingImage(dev, img): img is the slot dev.prevFrame or dev.curFrame.
destroyStagingImage(d, slot) ==
    LET img == d[slot]
        c1 == IF img.image # VK_NULL_HANDLE
              THEN <<Call("DestroyImage", img.image)>> ELSE <<>>
        c2 == IF img.memory # VK_NULL_HANDLE
              THEN <<Call("FreeMemory", img.memory)>> ELSE <<>>
    IN [dev   |-> [d EXCEPT ![slot] = NoStagingImage],
        calls |-> c1 \o c2]

\* findMemoryType: the lookup of the memory-type table is made through the
\* instance record while the registry lock is held.
findMemoryType(d) ==
    <<Call("GetPhysicalDeviceMemoryProperties", [locked |-> TRUE])>>

\* createStagingImage(dev, img, w, h, format); `outcome` is what the driver
\* answers to vkCreateImage and vkAllocateMemory.
createStagingImage(d, slot, w, h, format, outcome) ==
    LET h1   == NewStagingHandle(slot)
        info == [width |-> w, height |-> h, format |-> format]
    IN CASE outcome = "image_fail" ->
              [dev   |-> d,
               calls |-> <<CallR("CreateImage", info, VK_ERROR_OUT_OF_DEVICE_MEMORY)>>,
               ok    |-> FALSE]
         [] outcome = "memory_fail" ->
              [dev   |-> [d EXCEPT ![slot].image = VK_NULL_HANDLE],
               calls |-> <<Call("CreateImage", info),
                           Call("GetImageMemoryRequirements", h1)>>
                         \o findMemoryType(d)
                         \o <<CallR("AllocateMemory", h1, VK_ERROR_OUT_OF_DEVICE_MEMORY),
                              Call("DestroyImage", h1)>>,
               ok    |-> FALSE]
         [] OTHER ->
              [dev   |-> [d EXCEPT ![slot] =
                            [image |-> h1, memory |-> h1, valid |-> TRUE,
                             layout |-> UNDEFINED,
                             content |-> [known |-> FALSE, age |-> 0]]],
               calls |-> <<Call("CreateImage", info),
                           Call("GetImageMemoryRequirements", h1)>>
                         \o findMemoryType(d)
                         \o <<Call("AllocateMemory", h1),
                              Call("BindImageMemory", h1)>>,
               ok    |-> TRUE]

\* Variant of the early-return test that does not compare the size: a mirror
\* with a valid current image is taken to fit any chain.
StagingReadyAnySize(d, w, h, fmt) ==
    d.curFrame.valid

\* The early-return test of ensureStaging.
StagingReady(d, w, h, fmt) ==
    /\ d.curFrame.valid
    /\ d.captureW = w
    /\ d.captureH = h
    /\ d.captureFormat = fmt

\* Variant of ensureStaging that does not wait for the device to go idle.
ensureStagingNoIdle(d, w, h, fmt, outcomes) ==
    IF StagingReady(d, w, h, fmt)
    THEN [dev |-> d, calls |-> <<>>]
    ELSE LET x1 == destroyStagingImage(d, "prevFrame")
             x2 == destroyStagingImage(x1.dev, "curFrame")
             x3 == createStagingImage(x2.dev, "prevFrame", w, h, fmt, outcomes[1])
             x4 == createStagingImage(x3.dev, "curFrame", w, h, fmt, outcomes[2])
         IN [dev   |-> [x4.dev EXCEPT !.captureW = w, !.captureH = h,
                                      !.captureFormat = fmt, !.hasPrev = FALSE],
             calls |-> x1.calls \o x2.calls \o x3.calls \o x4.calls]

\* ensureStaging(dev, w, h, fmt); outcomes[1], outcomes[2] are the driver's
\* answers to the two createStagingImage calls.
ensureStaging(d, w, h, fmt, outcomes) ==
    IF StagingReady(d, w, h, fmt)
    THEN [dev |-> d, calls |-> <<>>]
    ELSE LET x1 == destroyStagingImage(d, "prevFrame")
             x2 == destroyStagingImage(x1.dev, "curFrame")
             x3 == createStagingImage(x2.dev, "prevFrame", w, h, fmt, outcomes[1])
             x4 == createStagingImage(x3.dev, "curFrame", w, h, fmt, outcomes[2])
         IN [dev   |-> [x4.dev EXCEPT !.captureW = w, !.captureH = h,
                                      !.captureFormat = fmt, !.hasPrev = FALSE],
             calls |-> <<Call("DeviceWaitIdle", 0)>>
                       \o x1.calls \o x2.calls \o x3.calls \o x4.calls]

\* Variant of the swap that forgets to set hasPrev.
swapStagingOnly(d) ==
    [d EXCEPT !.prevFrame = d.curFrame, !.curFrame = d.prevFrame]

\* std::swap(dev.prevFrame, dev.curFrame); dev.hasPrev = true;
swapStaging(d) ==
    [d EXCEPT !.prevFrame = d.curFrame, !.curFrame = d.prevFrame, !.hasPrev = TRUE]

\* ------------------------------------------------------------------ fence
\* vkResetFences(dev.fence)
resetFence(d) == [d EXCEPT !.fence = "unsignaled"]

\* vkQueueSubmit(..., dev.fence) followed by vkWaitForFences(dev.fence): the
\* batch completes and signals the fence, the wait returns.
submitAndWait(d) == [d EXCEPT !.fence = "signaled"]

\* Variant of the acquire for an engine that resets the fence before handing
\* it over: a failed acquire then leaves it unsignalled.
acquireFenceAfterReset(d, res) ==
    IF res \in {VK_SUCCESS, VK_SUBOPTIMAL_KHR}
    THEN [d EXCEPT !.fence = "signaled"] ELSE [d EXCEPT !.fence = "unsignaled"]

\* vkAcquireNextImageKHR(..., dev.fence): a successful acquire signals the
\* fence; a failed one leaves it as it was.
acquireFence(d, res) ==
    IF res \in {VK_SUCCESS, VK_SUBOPTIMAL_KHR}
    THEN [d EXCEPT !.fence = "signaled"] ELSE d

\* ------------------------------------------------------------------ commands
SwapchainImage(id) == [kind |-> "swapchain", id |-> id]
StagingImageRef(img) == [kind |-> "staging", id |-> img.image]

\* transitionImage: the recorded barrier.
transitionImage(image, oldL, newL) ==
    Call("CmdPipelineBarrier", [image |-> image, oldLayout |-> oldL, newLayout |-> newL])

\* Effect of a barrier on a staging image.  oldLayout UNDEFINED discards the
\* contents.  An oldLayout that is neither UNDEFINED nor the layout the image
\* is in is invalid usage: the contents are kept or lost (`ub`).
barrierEffect(img, oldL, newL, ub) ==
    [img EXCEPT !.layout = newL,
                !.content = IF oldL = UNDEFINED \/ (oldL # img.layout /\ ub)
                            THEN [known |-> FALSE, age |-> 0] ELSE @]

\* Every known staging content is one capture older when a new game image is
\* captured.
Older(c) == IF c.known THEN [c EXCEPT !.age = Min(@ + 1, MaxAge)] ELSE c
AgeFrames(d) ==
    [d EXCEPT !.prevFrame.content = Older(@), !.curFrame.content = Older(@)]

\* ------------------------------------------------------------------ present
\* Variant of the result test that takes sub-optimal for a failure.
IsOkSuccessOnly(r) == r = VK_SUCCESS

\* Variant of the result test that takes every result for a success.
IsOkAnyResult(r) == TRUE

\* The test of lines 791 and 800.
IsOk(r) == r = VK_SUCCESS \/ r = VK_SUBOPTIMAL_KHR

NoContent == [known |-> FALSE, age |-> 0]

\* Variant of the layer's own present structure that waits on a semaphore.
LayerPresentInfoWaiting(chains, indices) ==
    [swapchainCount |-> Len(chains), pSwapchains |-> chains,
     pImageIndices |-> indices, waitSemaphoreCount |-> 1, pResults |-> FALSE]

\* A VkPresentInfoKHR the layer builds itself: no wait semaphores, no pResults.
LayerPresentInfo(chains, indices) ==
    [swapchainCount |-> Len(chains), pSwapchains |-> chains,
     pImageIndices |-> indices, waitSemaphoreCount |-> 0, pResults |-> FALSE]

\* Variant of the passthrough that presents a structure the layer rebuilt
\* from the caller's chains and indices.
passthroughRebuilt(d, before, info, drv, path) ==
    [dev |-> d,
     calls |-> before \o <<CallR("QueuePresentKHR",
                                 LayerPresentInfo(info.pSwapchains, info.pImageIndices),
                                 drv.present[1])>>,
     ret |-> drv.present[1],
     path |-> path, stageB1 |-> FALSE, synth |-> NoContent, real |-> NoContent,
     frames |-> 1, interps |-> 0]

\* return dev.fpQueuePresentKHR(queue, pPresentInfo);
passthrough(d, before, info, drv, path) ==
    [dev |-> d,
     calls |-> before \o <<CallR("QueuePresentKHR", info, drv.present[1])>>,
     ret |-> drv.present[1],
     path |-> path, stageB1 |-> FALSE, synth |-> NoContent, real |-> NoContent,
     frames |-> 1, interps |-> 0]

\* Step 1 of onQueuePresent (lines 680-712): wait and reset the fence, begin
\* the command buffer, capture the game image into curFrame.
captureStage(d, gameImage) ==
    LET cur == barrierEffect(d.curFrame, UNDEFINED, TRANSFER_DST, FALSE)
    IN [dev |-> [resetFence(AgeFrames(d)) EXCEPT
                   !.curFrame = [cur EXCEPT !.content = [known |-> TRUE, age |-> 0]]],
        calls |-> << Call("WaitForFences", d.fence),
                     Call("ResetFences", 0),
                     Call("ResetCommandBuffer", 0),
                     Call("BeginCommandBuffer", 0),
                     transitionImage(SwapchainImage(gameImage), PRESENT_SRC, TRANSFER_SRC),
                     transitionImage(StagingImageRef(d.curFrame), UNDEFINED, TRANSFER_DST),
                     Call("CmdCopyImage", [src |-> SwapchainImage(gameImage),
                                           dst |-> StagingImageRef(d.curFrame)]) >>]

\* Step 2 (lines 714-755): with a previous frame, blit it over the game image;
\* without, transition the game image back.
synthStage(d, gameImage, ub) ==
    IF d.hasPrev
    THEN LET prevF == barrierEffect(d.prevFrame, TRANSFER_DST, TRANSFER_SRC, ub)
         IN [dev |-> [d EXCEPT !.prevFrame = prevF],
             synth |-> prevF.content,
             calls |-> << transitionImage(StagingImageRef(d.prevFrame),
                                          TRANSFER_DST, TRANSFER_SRC),
                          transitionImage(SwapchainImage(gameImage),
                                          TRANSFER_SRC, TRANSFER_DST),
                          Call("CmdBlitImage", [src |-> StagingImageRef(d.prevFrame),
                                                dst |-> SwapchainImage(gameImage)]),
                          transitionImage(SwapchainImage(gameImage),
                                          TRANSFER_DST, PRESENT_SRC) >>]
    ELSE [dev |-> d,
          synth |-> NoContent,
          calls |-> << transitionImage(SwapchainImage(gameImage),
                                       TRANSFER_SRC, PRESENT_SRC) >>]

\* Variant of the submission that does not wait for the fence afterwards.
submitStageNoWait(d, info) ==
    [dev |-> submitAndWait(d),
     calls |-> << Call("EndCommandBuffer", 0),
                  Call("QueueSubmit", [waitSemaphoreCount |-> info.waitSemaphoreCount,
                                       fenceWas |-> d.fence]) >>]

\* Lines 757-779: end the buffer, submit it waiting on the caller's semaphores
\* and signalling the fence, wait for the fence.
submitStage(d, info) ==
    [dev |-> submitAndWait(d),
     calls |-> << Call("EndCommandBuffer", 0),
                  Call("QueueSubmit", [waitSemaphoreCount |-> info.waitSemaphoreCount,
                                       fenceWas |-> d.fence]),
                  Call("WaitForFences", d.fence) >>]

\* Step 4 after a successful acquire (lines 801-853): blit curFrame into the
\* acquired image and present it.
realStage(d, swapchain, newImage, newIndex, drv) ==
    LET d1  == resetFence(d)
        cur == barrierEffect(d1.curFrame, TRANSFER_DST, TRANSFER_SRC, drv.ub)
        d2  == submitAndWait([d1 EXCEPT !.curFrame = cur])
    IN [dev |-> d2,
        real |-> cur.content,
        calls |-> << Call("WaitForFences", d.fence),
                     Call("ResetFences", 0),
                     Call("ResetCommandBuffer", 0),
                     Call("BeginCommandBuffer", 0),
                     transitionImage(StagingImageRef(d.curFrame), TRANSFER_DST, TRANSFER_SRC),
                     transitionImage(SwapchainImage(newImage), UNDEFINED, TRANSFER_DST),
                     Call("CmdBlitImage", [src |-> StagingImageRef(d.curFrame),
                                           dst |-> SwapchainImage(newImage)]),
                     transitionImage(SwapchainImage(newImage), TRANSFER_DST, PRESENT_SRC),
                     Call("EndCommandBuffer", 0),
                     Call("QueueSubmit", [waitSemaphoreCount |-> 0, fenceWas |-> d1.fence]),
                     Call("WaitForFences", d1.fence),
                     CallR("QueuePresentKHR",
                           LayerPresentInfo(<<swapchain>>, <<newIndex>>),
                           drv.present[2]) >>]

\* Steps 3 and 4 (lines 781-864): the presents.
presentStage(d, info, scData, swapchain, imageIndex, drv) ==
    IF d.hasPrev
    THEN LET interpResult == drv.present[1]
             c1 == <<CallR("QueuePresentKHR",
                           LayerPresentInfo(<<swapchain>>, <<imageIndex>>),
                           interpResult)>>
         IN IF IsOk(interpResult)
            THEN LET d1 == d
                     acqResult == drv.acquire
                     c2 == <<CallR("AcquireNextImageKHR",
                                   [swapchain |-> swapchain, fenceWas |-> d1.fence,
                                    newIndex |-> drv.newIndex],
                                   acqResult)>>
                     d2 == acquireFence(d1, acqResult)
                 IN IF IsOk(acqResult)
                    THEN LET r == realStage(d2, swapchain,
                                            scData.images[drv.newIndex + 1],
                                            drv.newIndex, drv)
                         IN [dev |-> r.dev, real |-> r.real, interps |-> 1,
                             calls |-> c1 \o c2 \o r.calls]
                    ELSE [dev |-> d2, real |-> NoContent, interps |-> 1,
                          calls |-> c1 \o c2]
            ELSE [dev |-> d, real |-> NoContent, interps |-> 0, calls |-> c1]
    ELSE [dev |-> d, real |-> NoContent, interps |-> 0,
          calls |-> <<CallR("QueuePresentKHR",
                            LayerPresentInfo(info.pSwapchains, info.pImageIndices),
                            drv.present[1])>>]

\* The test of line 664.
NotAugmentable(d, swapchain, imageIndex) ==
    \/ swapchain \notin DOMAIN d.swapchains
    \/ Len(d.swapchains[swapchain].images) = 0
    \/ imageIndex >= Len(d.swapchains[swapchain].images)

\* VulkanLayer::onQueuePresent.  `en` is enabled_, `info` the caller's
\* VkPresentInfoKHR, `drv` the driver's answers during the call.
onQueuePresent(en, d, info, drv) ==
    IF ~en \/ info.swapchainCount = 0
    THEN [passthrough(d, <<>>, info, drv, "disabled_or_empty") EXCEPT !.frames = 0]
    ELSE
    LET d1 == d
        swapchain == info.pSwapchains[1]
        imageIndex == info.pImageIndices[1]
    IN IF NotAugmentable(d1, swapchain, imageIndex)
       THEN passthrough(d1, <<>>, info, drv, "untracked_or_range")
       ELSE
       LET scData == d1.swapchains[swapchain]
           gameImage == scData.images[imageIndex + 1]
           e == ensureStaging(d1, scData.width, scData.height, scData.format,
                              drv.staging)
       IN IF ~e.dev.curFrame.valid \/ ~e.dev.prevFrame.valid
          THEN passthrough(e.dev, e.calls, info, drv, "staging_not_ready")
          ELSE
          LET a == captureStage(e.dev, gameImage)
              b == synthStage(a.dev, gameImage, drv.ub)
              c == submitStage(b.dev, info)
              p == presentStage(c.dev, info, scData, swapchain, imageIndex, drv)
          IN [dev |-> swapStaging(p.dev),
              calls |-> e.calls \o a.calls \o b.calls \o c.calls \o p.calls,
              ret |-> VK_SUCCESS,
              path |-> IF e.dev.hasPrev THEN "augmented" ELSE "first",
              stageB1 |-> e.dev.hasPrev,
              synth |-> b.synth,
              real |-> p.real,
              frames |-> 1,
              interps |-> p.interps]

\* ------------------------------------------------------------------ surface chains
TRANSFER_BITS == {"TRANSFER_SRC_BIT", "TRANSFER_DST_BIT"}

\* uint32_t as two 16-bit halves (TLC integers are narrower than 2^32): the
\* value is hi * 65536 + lo.
HALF == 65536
U32(hi, lo) == [hi |-> hi, lo |-> lo]
U32Inc(x) == IF x.lo = HALF - 1
             THEN U32((x.hi + 1) % HALF, 0)
             ELSE U32(x.hi, x.lo + 1)
U32Less(a, b) == a.hi < b.hi \/ (a.hi = b.hi /\ a.lo < b.lo)
U32Max(a, b) == IF U32Less(a, b) THEN b ELSE a

\* modInfo of onCreateSwapchain (lines 580-584).
augmentCreateInfo(ci) ==
    [ci EXCEPT !.minImageCount = U32Max(U32Inc(ci.minImageCount), U32(0, 3)),
               !.imageUsage = @ \cup TRANSFER_BITS]

\* Variant of onCreateSwapchain whose retry passes the augmented structure
\* again instead of the caller's.
onCreateSwapchainRetryAugmented(d, ci, drv) ==
    LET modInfo == augmentCreateInfo(ci)
        first == <<CallR("CreateSwapchainKHR", modInfo, drv.create[1])>>
        retry == IF drv.create[1] # VK_SUCCESS
                 THEN <<CallR("CreateSwapchainKHR", modInfo, drv.create[2])>> ELSE <<>>
        result == IF drv.create[1] # VK_SUCCESS THEN drv.create[2] ELSE drv.create[1]
    IN IF result # VK_SUCCESS
       THEN [dev |-> d, calls |-> first \o retry, ret |-> result, path |-> "failed"]
       ELSE
       LET scData == [handle |-> drv.handle,
                      images |-> [i \in 1..drv.imageCount |-> 10 * drv.handle + i - 1],
                      format |-> ci.imageFormat,
                      width |-> ci.width, height |-> ci.height]
           d1 == [d EXCEPT !.swapchains =
                     [h \in DOMAIN @ \cup {drv.handle} |->
                        IF h = drv.handle THEN scData ELSE @[h]]]
           e == ensureStaging(d1, scData.width, scData.height, scData.format,
                              drv.staging)
       IN [dev |-> e.dev,
           calls |-> first \o retry
                     \o <<Call("GetSwapchainImagesKHR", drv.handle),
                          Call("GetSwapchainImagesKHR", drv.handle)>>
                     \o e.calls,
           ret |-> VK_SUCCESS,
           path |-> IF drv.create[1] = VK_SUCCESS THEN "augmented" ELSE "verbatim"]

\* VulkanLayer::onCreateSwapchain.  `ci` is the caller's creation structure;
\* drv.create[1], drv.create[2] answer the augmented and the verbatim creation,
\* drv.handle is the chain the driver hands back, drv.imageCount what
\* vkGetSwapchainImagesKHR reports.
onCreateSwapchain(d, ci, drv) ==
    LET modInfo == augmentCreateInfo(ci)
        first == <<CallR("CreateSwapchainKHR", modInfo, drv.create[1])>>
        retry == IF drv.create[1] # VK_SUCCESS
                 THEN <<CallR("CreateSwapchainKHR", ci, drv.create[2])>> ELSE <<>>
        result == IF drv.create[1] # VK_SUCCESS THEN drv.create[2] ELSE drv.create[1]
    IN IF result # VK_SUCCESS
       THEN [dev |-> d, calls |-> first \o retry, ret |-> result, path |-> "failed"]
       ELSE
       LET scData == [handle |-> drv.handle,
                      images |-> [i \in 1..drv.imageCount |-> 10 * drv.handle + i - 1],
                      format |-> ci.imageFormat,
                      width |-> ci.width, height |-> ci.height]
           d1 == [d EXCEPT !.swapchains =
                     [h \in DOMAIN @ \cup {drv.handle} |->
                        IF h = drv.handle THEN scData ELSE @[h]]]
           e == ensureStaging(d1, scData.width, scData.height, scData.format,
                              drv.staging)
       IN [dev |-> e.dev,
           calls |-> first \o retry
                     \o <<Call("GetSwapchainImagesKHR", drv.handle),
                          Call("GetSwapchainImagesKHR", drv.handle)>>
                     \o e.calls,
           ret |-> VK_SUCCESS,
           path |-> IF drv.create[1] = VK_SUCCESS THEN "augmented" ELSE "verbatim"]

\* VulkanLayer::onDestroySwapchain.
onDestroySwapchain(d, swapchain) ==
    [dev |-> [d EXCEPT !.swapchains =
                 [h \in DOMAIN @ \ {swapchain} |-> @[h]]],
     calls |-> <<Call("DestroySwapchainKHR", swapchain)>>]

\* ------------------------------------------------------------------ registry
\* The two registries of the layer, instances_ and devices_, and the entry
\* points that create, look up and erase their records.  The record kept here
\* for a device is its dispatch table and the resources onCreateDevice makes;
\* the engine fields of the record are the subject of Spec above.

\* Dispatch keys (getKey: the first word of a dispatchable handle).
DispatchKeys == {"k1", "k2"}

\* The functions onCreateDevice loads with LOAD; the first five belong to
\* VK_KHR_swapchain, the others to the core API.
SwapchainFunctions ==
    {"QueuePresentKHR", "CreateSwapchainKHR", "DestroySwapchainKHR",
     "GetSwapchainImagesKHR", "AcquireNextImageKHR"}
DeviceFunctions ==
    SwapchainFunctions \cup
    {"DestroyDevice", "QueueSubmit", "QueueWaitIdle", "CreateCommandPool",
     "AllocateCommandBuffers", "FreeCommandBuffers", "BeginCommandBuffer",
     "EndCommandBuffer", "CmdCopyImage", "CmdBlitImage", "CmdPipelineBarrier",
     "CreateImage", "DestroyImage", "AllocateMemory", "FreeMemory",
     "BindImageMemory", "GetImageMemoryRequirements", "CreateFence",
     "DestroyFence", "WaitForFences", "ResetFences", "CreateSemaphore",
     "DestroySemaphore", "ResetCommandBuffer", "DeviceWaitIdle"}
InstanceFunctions ==
    {"DestroyInstance", "GetPhysicalDeviceMemoryProperties",
     "GetPhysicalDeviceQueueFamilyProperties"}

\* DeviceData and InstanceData, default-constructed: every pointer of the
\* dispatch table is nullptr.  `table` is the set of entries that are not null.
DefaultDeviceData ==
    [device |-> VK_NULL_HANDLE, table |-> {},
     cmdPool |-> VK_NULL_HANDLE, cmdBuf |-> VK_NULL_HANDLE, fence |-> VK_NULL_HANDLE,
     prevFrame |-> NoStagingImage, curFrame |-> NoStagingImage]
DefaultInstanceData ==
    [instance |-> VK_NULL_HANDLE, table |-> {}]

\* std::unordered_map: operator[] inserts a default-constructed value for a
\* key that is absent; erase removes the key; m[key] = v inserts or overwrites.
Subscript(m, key, default) ==
    IF key \in DOMAIN m THEN m ELSE (key :> default) @@ m
Assign(m, key, v) == (key :> v) @@ m
Erase(m, key) ==
    IF DOMAIN m \ {key} = {} THEN <<>>
    ELSE [k \in DOMAIN m \ {key} |-> m[k]]

\* getDeviceData / getInstanceData: the map after the lookup and the record.
getDeviceData(m, key) ==
    LET after == Subscript(m, key, DefaultDeviceData)
    IN [devices |-> after, data |-> after[key]]
getInstanceData(m, key) ==
    LET after == Subscript(m, key, DefaultInstanceData)
    IN [instances |-> after, data |-> after[key]]

\* What the next layer's vkGetDeviceProcAddr answers for a device created from
\* `ci`: a command of an extension that was not enabled resolves to NULL.
nextGetDeviceProcAddr(ci, fn) ==
    fn \notin SwapchainFunctions \/ ci.swapchainExt
\* LOAD(fn): the pointer is stored as it comes; TRUE = not null.
LOAD(ci, fn) == nextGetDeviceProcAddr(ci, fn)

\* onCreateInstance.  ci.link: the chain of pCreateInfo holds the layer link
\* info; drv.res, drv.key: what the next vkCreateInstance answers.
onCreateInstance(m, ci, drv) ==
    IF ~ci.link
    THEN [instances |-> m, calls |-> <<>>, ret |-> VK_ERROR_INITIALIZATION_FAILED]
    ELSE
    LET create == <<Call("GetInstanceProcAddr", "vkCreateInstance"),
                    CallR("CreateInstance", <<>>, drv.res)>>
    IN IF drv.res # VK_SUCCESS
       THEN [instances |-> m, calls |-> create, ret |-> drv.res]
       ELSE
       LET data == [instance |-> drv.key, table |-> InstanceFunctions]
           loads == <<Call("GetInstanceProcAddr", "vkDestroyInstance"),
                      Call("GetInstanceProcAddr", "vkGetPhysicalDeviceMemoryProperties"),
                      Call("GetInstanceProcAddr", "vkGetPhysicalDeviceQueueFamilyProperties")>>
       IN [instances |-> Assign(m, drv.key, data),
           calls |-> create \o loads,
           ret |-> VK_SUCCESS]

\* onDestroyInstance
onDestroyInstance(m, key) ==
    LET data == Subscript(m, key, DefaultInstanceData)[key]
    IN [instances |-> Erase(m, key),
        calls |-> <<Call("DestroyInstance",
                         [key |-> key, null |-> "DestroyInstance" \notin data.table])>>]

\* The resources onCreateDevice makes after loading the table; the results of
\* the three creations are not looked at, a handle stays null when its
\* creation fails (drv.resources = FALSE).
deviceResources(d, drv) ==
    LET h == IF drv.resources THEN 1 ELSE VK_NULL_HANDLE
        r == IF drv.resources THEN VK_SUCCESS ELSE VK_ERROR_OUT_OF_DEVICE_MEMORY
    IN [dev |-> [d EXCEPT !.cmdPool = h, !.cmdBuf = h, !.fence = h],
        calls |-> <<Call("GetDeviceQueue", <<>>),
                    CallR("CreateCommandPool", <<>>, r),
                    CallR("AllocateCommandBuffers", <<>>, r),
                    CallR("CreateFence", <<>>, r)>>]

\* onCreateDevice with the check of the next layer's result left out.
onCreateDeviceUnchecked(m, ci, drv) ==
    IF ~ci.link
    THEN [devices |-> m, calls |-> <<>>, ret |-> VK_ERROR_INITIALIZATION_FAILED]
    ELSE
    LET create == <<Call("GetInstanceProcAddr", "vkCreateDevice"),
                    CallR("CreateDevice", <<>>, drv.res)>>
        d0 == [DefaultDeviceData EXCEPT
                 !.device = drv.key,
                 !.table = {fn \in DeviceFunctions : LOAD(ci, fn)}]
        res == deviceResources(d0, drv)
    IN [devices |-> Assign(m, drv.key, res.dev),
        calls |-> create \o res.calls,
        ret |-> VK_SUCCESS]

\* onCreateDevice.  ci.link as above, ci.swapchainExt: VK_KHR_swapchain is
\* among the enabled extensions; drv: the next layer's answers.
onCreateDevice(m, ci, drv) ==
    IF ~ci.link
    THEN [devices |-> m, calls |-> <<>>, ret |-> VK_ERROR_INITIALIZATION_FAILED]
    ELSE
    LET create == <<Call("GetInstanceProcAddr", "vkCreateDevice"),
                    CallR("CreateDevice", <<>>, drv.res)>>
    IN IF drv.res # VK_SUCCESS
       THEN [devices |-> m, calls |-> create, ret |-> drv.res]
       ELSE
       LET d0 == [DefaultDeviceData EXCEPT
                    !.device = drv.key,
                    !.table = {fn \in DeviceFunctions : LOAD(ci, fn)}]
           res == deviceResources(d0, drv)
       IN [devices |-> Assign(m, drv.key, res.dev),
           calls |-> create \o res.calls,
           ret |-> VK_SUCCESS]

\* onDestroyDevice
onDestroyDevice(m, key) ==
    LET d == Subscript(m, key, DefaultDeviceData)[key]
        s1 == destroyStagingImage(d, "prevFrame")
        s2 == destroyStagingImage(s1.dev, "curFrame")
        c3 == IF d.fence # VK_NULL_HANDLE
              THEN <<Call("DestroyFence", d.fence)>> ELSE <<>>
        c4 == IF d.cmdPool # VK_NULL_HANDLE
              THEN <<Call("DestroyCommandPool", d.cmdPool)>> ELSE <<>>
    IN [devices |-> Erase(m, key),
        calls |-> s1.calls \o s2.calls \o c3 \o c4 \o
                  <<Call("DestroyDevice",
                         [key |-> key, null |-> "DestroyDevice" \notin d.table])>>]

\* The names getInstanceProcAddr answers itself, line 1021-1046, and those
\* getDeviceProcAddr answers itself, line 1005-1014.
InterceptedInstanceNames ==
    {"vkCreateInstance", "vkDestroyInstance", "vkCreateDevice", "vkDestroyDevice",
     "vkQueuePresentKHR", "vkCreateSwapchainKHR", "vkDestroySwapchainKHR",
     "vkGetDeviceProcAddr", "vkGetInstanceProcAddr",
     "vkEnumerateInstanceLayerProperties", "vkEnumerateDeviceLayerProperties",
     "vkEnumerateInstanceExtensionProperties", "vkEnumerateDeviceExtensionProperties"}
InterceptedDeviceNames ==
    {"vkQueuePresentKHR", "vkDestroyDevice", "vkCreateSwapchainKHR",
     "vkDestroySwapchainKHR", "vkGetDeviceProcAddr"}
\* Names the host looks up: those the layer intercepts and two it passes on.
LookupNames == InterceptedInstanceNames \cup {"vkCmdDraw", "vkEnumeratePhysicalDevices"}

\* The pointers a lookup can return: framegen_<name>, the layer's own entry
\* point; what the next layer's proc-address function answers for a handle
\* and a name; and the outcome of calling through a null function pointer.
LayerEntry(pName) == [owner |-> "framegen", name |-> pName]
NextEntry(key, pName) == [owner |-> "next", handle |-> key, name |-> pName]
NullCall == [owner |-> "nullptr"]

\* Variant of getDeviceProcAddr that answers every name itself.
getDeviceProcAddrOwn(m, key, pName) ==
    [devices |-> m, calls |-> <<>>, ret |-> LayerEntry(pName)]

\* getDeviceProcAddr.  fpGetDeviceProcAddr is set in every record that
\* onCreateDevice registers and null in the one operator[] makes for a key
\* that is absent.
getDeviceProcAddr(m, key, pName) ==
    IF pName \in InterceptedDeviceNames
    THEN [devices |-> m, calls |-> <<>>, ret |-> LayerEntry(pName)]
    ELSE LET g == getDeviceData(m, key)
         IN [devices |-> g.devices,
             calls |-> <<Call("GetDeviceProcAddr", pName)>>,
             ret |-> IF key \in DOMAIN m
                     THEN NextEntry(key, pName) ELSE NullCall]

\* getInstanceProcAddr
getInstanceProcAddr(m, key, pName) ==
    IF pName \in InterceptedInstanceNames
    THEN [instances |-> m, calls |-> <<>>, ret |-> LayerEntry(pName)]
    ELSE LET g == getInstanceData(m, key)
         IN [instances |-> g.instances,
             calls |-> <<Call("GetInstanceProcAddr", pName)>>,
             ret |-> IF key \in DOMAIN m
                     THEN NextEntry(key, pName) ELSE NullCall]

\* framegen_EnumerateInstanceLayerProperties.  pPropertyCount is the value
\* the caller's counter holds, pProperties the caller's array (NoBuffer for a
\* null pointer); the result carries both as the call leaves them.
layerProps == [layerName |-> "VK_LAYER_FRAMEGEN_capture", implementationVersion |-> 1]
NoBuffer == <<"null">>
Unwritten == [layerName |-> "", implementationVersion |-> 0]

\* Variant that leaves the caller's count as it was.
EnumerateKeepCount(pPropertyCount, pProperties) ==
    IF pProperties = NoBuffer
    THEN [ret |-> VK_SUCCESS, count |-> 1, properties |-> pProperties]
    ELSE IF pPropertyCount >= 1
    THEN [ret |-> VK_SUCCESS, count |-> pPropertyCount,
          properties |-> [pProperties EXCEPT ![1] = layerProps]]
    ELSE [ret |-> VK_INCOMPLETE, count |-> pPropertyCount, properties |-> pProperties]

EnumerateInstanceLayerProperties(pPropertyCount, pProperties) ==
    IF pProperties = NoBuffer
    THEN [ret |-> VK_SUCCESS, count |-> 1, properties |-> pProperties]
    ELSE IF pPropertyCount >= 1
    THEN [ret |-> VK_SUCCESS, count |-> 1,
          properties |-> [pProperties EXCEPT ![1] = layerProps]]
    ELSE [ret |-> VK_INCOMPLETE, count |-> pPropertyCount, properties |-> pProperties]

\* ------------------------------------------------------------------ inputs
\* The VkPresentInfoKHR values the host passes: the chains of one present are
\* distinct; only the first chain's image index is varied; pResults tells
\* whether the caller supplies a per-chain result array.
PresentInfos ==
    { [swapchainCount |-> Len(cs), pSwapchains |-> cs,
       pImageIndices |-> [i \in 1..Len(cs) |-> IF i = 1 THEN ix ELSE 0],
       waitSemaphoreCount |-> ws, pResults |-> pr] :
      cs \in UNION { {c \in [1..n -> SwapchainHandles] :
                          \A i, j \in 1..n : c[i] = c[j] => i = j} :
                      n \in 0..MaxSwapchainCount },
      ix \in {0, MaxImageIndex},
      ws \in WaitSemaphoreCounts,
      pr \in BOOLEAN }

\* The VkSwapchainCreateInfoKHR values the host passes.
MinImageCounts == {U32(0, 2)}
CreateInfos ==
    { [minImageCount |-> m, imageUsage |-> {"COLOR_ATTACHMENT_BIT"},
       imageFormat |-> c.format, width |-> c.width, height |-> c.height] :
      m \in MinImageCounts, c \in ChainConfigs }

DrvPresent(r1, r2, acq, ni, st, ub) ==
    [present |-> <<r1, r2>>, acquire |-> acq, newIndex |-> ni, staging |-> st, ub |-> ub]

\* Driver answers for the two createStagingImage calls of one ensureStaging;
\* a single value when ensureStaging returns early and asks nothing.
StagingAnswers(d, w, h, fmt) ==
    IF StagingReady(d, w, h, fmt) THEN {<<"ok", "ok">>}
    ELSE StagingOutcomes \X StagingOutcomes

\* The driver answers onQueuePresent can observe for this state and present:
\* answers to calls the path does not make are fixed, so that each distinct
\* behaviour of the driver is drawn once.
PresentOracles(en, d, info) ==
    IF \/ ~en \/ info.swapchainCount = 0
       \/ NotAugmentable(d, info.pSwapchains[1], info.pImageIndices[1])
    THEN { DrvPresent(r, VK_SUCCESS, VK_SUCCESS, 0, <<"ok", "ok">>, FALSE) :
           r \in PresentResults }
    ELSE
    LET sc == d.swapchains[info.pSwapchains[1]]
        ready == StagingReady(d, sc.width, sc.height, sc.format)
        n == Len(sc.images)
    IN IF ready /\ d.prevFrame.valid /\ d.hasPrev
       THEN LET ubs == IF d.prevFrame.layout = TRANSFER_DST THEN {FALSE} ELSE BOOLEAN
            IN UNION { { DrvPresent(r, VK_SUCCESS, VK_SUCCESS, 0, <<"ok", "ok">>, ub) :
                           r \in PresentResults \ {VK_SUCCESS, VK_SUBOPTIMAL_KHR} }
                       \cup
                       { DrvPresent(r, VK_SUCCESS, a, 0, <<"ok", "ok">>, ub) :
                           r \in {VK_SUCCESS, VK_SUBOPTIMAL_KHR},
                           a \in PresentResults \ {VK_SUCCESS, VK_SUBOPTIMAL_KHR} }
                       \cup
                       { DrvPresent(r, r2, a, ni, <<"ok", "ok">>, ub) :
                           r \in {VK_SUCCESS, VK_SUBOPTIMAL_KHR},
                           r2 \in {VK_SUCCESS, VK_ERROR_OUT_OF_DATE_KHR},
                           a \in {VK_SUCCESS, VK_SUBOPTIMAL_KHR}, ni \in 0..(n - 1) }
                     : ub \in ubs }
       ELSE { DrvPresent(r, VK_SUCCESS, VK_SUCCESS, 0, st, FALSE) :
              r \in PresentResults,
              st \in StagingAnswers(d, sc.width, sc.height, sc.format) }

\* Creation structures whose minImageCount covers the ends of the 32-bit range
\* and the values around the lower bound of 3, with and without a transfer
\* usage bit already set by the caller.
WideMinImageCounts ==
    { U32(0, 0), U32(0, 1), U32(0, 2), U32(0, 3), U32(0, HALF - 1), U32(1, 0),
      U32(HALF - 1, HALF - 2), U32(HALF - 1, HALF - 1) }
WideCreateInfos ==
    { [minImageCount |-> m, imageUsage |-> u,
       imageFormat |-> c.format, width |-> c.width, height |-> c.height] :
      m \in WideMinImageCounts,
      u \in { {"COLOR_ATTACHMENT_BIT"}, {"COLOR_ATTACHMENT_BIT", "TRANSFER_SRC_BIT"} },
      c \in ChainConfigs }

\* The driver answers onCreateSwapchain can observe.
CreateOracles(d, ci) ==
    LET hs == SwapchainHandles \ DOMAIN d.swapchains
        okSt == { [create |-> cr, handle |-> h, imageCount |-> n, staging |-> st] :
                  cr \in { <<VK_SUCCESS, VK_SUCCESS>>,
                           <<VK_ERROR_INITIALIZATION_FAILED, VK_SUCCESS>> },
                  h \in hs, n \in ImageCounts,
                  st \in StagingAnswers(d, ci.width, ci.height, ci.imageFormat) }
        bad  == { [create |-> <<VK_ERROR_INITIALIZATION_FAILED,
                                VK_ERROR_OUT_OF_DEVICE_MEMORY>>,
                   handle |-> VK_NULL_HANDLE, imageCount |-> 0,
                   staging |-> <<"ok", "ok">>] }
    IN okSt \cup bad

\* What the next layer leaves in the caller's per-chain result array: a
\* vkQueuePresentKHR handed a present info with pResults writes, for every chain
\* of that info, the result of presenting it; a present info without pResults
\* (the ones the layer builds) writes nothing.  An entry nobody wrote keeps the
\* value the caller put there ("unwritten").
RECURSIVE WritePresents(_, _)
WritePresents(arr, cs) ==
    IF cs = <<>> THEN arr
    ELSE LET c == Head(cs)
             written == IF c.fn = "QueuePresentKHR"
                        THEN IF c.params.pResults
                             THEN [i \in DOMAIN arr |->
                                     IF i <= c.params.swapchainCount THEN c.res ELSE arr[i]]
                             ELSE arr
                        ELSE arr
         IN WritePresents(written, Tail(cs))

ResultsWritten(info, cs) ==
    IF info.pResults
    THEN WritePresents([i \in 1..info.swapchainCount |-> "unwritten"], cs)
    ELSE <<>>

\* The registry and the timing controller while the specification at hand does
\* not drive them: they are kept empty and no action touches them.
RegistryAtRest ==
    /\ instances_ = <<>>
    /\ devices_ = <<>>
    /\ liveDevices = {}
    /\ liveInstances = {}

TimingAtRest ==
    /\ config_ = <<>>
    /\ state_ = <<>>
    /\ frameHistory_ = <<>>

\* The same for the presenter, for the frame queue and for the threads that
\* contend for mutex_.
PresenterAtRest ==
    /\ mode = "OFF"
    /\ previousFrame_ = <<>>
    /\ hasPreviousFrame_ = FALSE
    /\ presentQueue_q_ = <<>>
    /\ taken = 0
    /\ pushes = <<>>

FrameQueueAtRest ==
    /\ buffer_ = <<>>
    /\ head_ = 0
    /\ tail_ = 0
    /\ droppedFrames_ = 0
    /\ producer = <<>>
    /\ consumer = <<>>
    /\ accepted = <<>>
    /\ popped = <<>>
    /\ sizer = <<>>

QueueAtRest == FrameQueueAtRest /\ PresenterAtRest

LockAtRest ==
    /\ mutex_ = "free"
    /\ threads = <<>>

\* ------------------------------------------------------------------ specification
\* DeviceData as onCreateDevice leaves it: no chain, no staging image, the
\* fence created signalled.
NewDevice ==
    [swapchains |-> <<>>,
     prevFrame |-> NoStagingImage, curFrame |-> NoStagingImage,
     hasPrev |-> FALSE,
     captureW |-> 0, captureH |-> 0, captureFormat |-> 0,
     fence |-> "signaled"]

Op(name, info, path, stageB1, synth, real, frames, interps) ==
    [name |-> name, info |-> info, path |-> path,
     stageB1 |-> stageB1, synth |-> synth, real |-> real,
     frames |-> frames, interps |-> interps]

Init ==
    /\ enabled = TRUE
    /\ dev = NewDevice
    /\ unaugmented = {}
    /\ op = Op("CreateDevice", <<>>, "", FALSE, NoContent, NoContent, 0, 0)
    /\ pre = NewDevice
    /\ calls = <<>>
    /\ ret = VK_SUCCESS
    /\ pResults = <<>>
    /\ RegistryAtRest
    /\ TimingAtRest
    /\ QueueAtRest
    /\ LockAtRest

Idle == Op("Idle", <<>>, "", FALSE, NoContent, NoContent, 0, 0)

\* The host has the result of the call and goes on.
HostContinues ==
    /\ op.name # "Idle"
    /\ op' = Idle
    /\ pre' = dev
    /\ calls' = <<>>
    /\ ret' = VK_SUCCESS
    /\ pResults' = <<>>
    /\ UNCHANGED <<enabled, dev, unaugmented>>
    /\ UNCHANGED <<registryVars, timingVars, queueVars, lockVars>>

\* VulkanLayer::setEnabled
SetEnabled ==
    /\ op.name = "Idle"
    /\ enabled' = ~enabled
    /\ op' = Op("SetEnabled", <<>>, "", FALSE, NoContent, NoContent, 0, 0)
    /\ pre' = dev
    /\ calls' = <<>>
    /\ ret' = VK_SUCCESS
    /\ UNCHANGED <<dev, unaugmented, pResults>>
    /\ UNCHANGED <<registryVars, timingVars, queueVars, lockVars>>

\* onCreateSwapchain called with a creation structure out of `infos`.
CreateSwapchainFrom(infos) ==
    /\ op.name = "Idle"
    /\ \E ci \in infos :
      \E drv \in CreateOracles(dev, ci) :
        LET r == onCreateSwapchain(dev, ci, drv)
        IN /\ dev' = r.dev
           /\ unaugmented' = CASE r.path = "verbatim" -> unaugmented \cup {drv.handle}
                               [] r.path = "augmented" -> unaugmented \ {drv.handle}
                               [] OTHER -> unaugmented
           /\ op' = Op("CreateSwapchain", [ci |-> ci, handle |-> drv.handle],
                       r.path, FALSE, NoContent, NoContent, 0, 0)
           /\ pre' = dev
           /\ calls' = r.calls
           /\ ret' = r.ret
           /\ UNCHANGED <<enabled, pResults>>
           /\ UNCHANGED <<registryVars, timingVars, queueVars, lockVars>>

CreateSwapchain == CreateSwapchainFrom(CreateInfos)

DestroySwapchain ==
    /\ op.name = "Idle"
    /\ \E h \in SwapchainHandles :
        LET r == onDestroySwapchain(dev, h)
        IN /\ dev' = r.dev
           /\ unaugmented' = unaugmented \ {h}
           /\ op' = Op("DestroySwapchain", h, "", FALSE, NoContent, NoContent, 0, 0)
           /\ pre' = dev
           /\ calls' = r.calls
           /\ ret' = VK_SUCCESS
           /\ UNCHANGED <<enabled, pResults>>
           /\ UNCHANGED <<registryVars, timingVars, queueVars, lockVars>>

QueuePresent ==
    /\ op.name = "Idle"
    /\ \E info \in PresentInfos :
         LET d == dev
         IN \E drv \in PresentOracles(enabled, d, info) :
              LET r == onQueuePresent(enabled, d, info, drv)
              IN /\ dev' = r.dev
                 /\ op' = Op("QueuePresent", info, r.path, r.stageB1, r.synth, r.real,
                             r.frames, r.interps)
                 /\ pre' = d
                 /\ calls' = r.calls
                 /\ ret' = r.ret
                 /\ pResults' = ResultsWritten(info, r.calls)
                 /\ UNCHANGED <<enabled, unaugmented>>
                 /\ UNCHANGED <<registryVars, timingVars, queueVars, lockVars>>

\* The registry record of the engine's device: the mirror of dev next to the
\* dispatch table and the pool, command buffer and fence of onCreateDevice.
EngineKey == "k1"
EngineRecord(d) ==
    [DefaultDeviceData EXCEPT
        !.device = EngineKey, !.table = DeviceFunctions,
        !.cmdPool = 1, !.cmdBuf = 1, !.fence = 1,
        !.prevFrame = d.prevFrame, !.curFrame = d.curFrame]

\* onDestroyDevice on the engine's device.  The record is erased; dev then
\* stands for the record of the device the host creates next, as
\* onCreateDevice leaves it.
DestroyEngineDevice ==
    /\ op.name = "Idle"
    /\ LET r == onDestroyDevice(EngineKey :> EngineRecord(dev), EngineKey)
       IN /\ dev' = NewDevice
          /\ unaugmented' = {}
          /\ op' = Op("DestroyDevice", <<>>, "", FALSE, NoContent, NoContent, 0, 0)
          /\ pre' = dev
          /\ calls' = r.calls
          /\ ret' = VK_SUCCESS
          /\ UNCHANGED <<enabled, pResults>>
          /\ UNCHANGED <<registryVars, timingVars, queueVars, lockVars>>

Next ==
    \/ HostContinues
    \/ SetEnabled
    \/ CreateSwapchain
    \/ DestroySwapchain
    \/ QueuePresent
    \/ DestroyEngineDevice

Spec == Init /\ [][Next]_vars

\* The surface-chain creation hook alone, over the wide creation structures.
CreateSwapchainAnyCount == CreateSwapchainFrom(WideCreateInfos)

CreationNext ==
    \/ HostContinues
    \/ CreateSwapchainAnyCount

CreationSpec == Init /\ [][CreationNext]_vars

\* ------------------------------------------------------------------ registry actions
\* Creation structures and next-layer answers of the two creation hooks.
InstanceCreateInfos == [link : BOOLEAN]
DeviceCreateInfos == [link : BOOLEAN, swapchainExt : BOOLEAN]
CreationFailures == {VK_ERROR_OUT_OF_DEVICE_MEMORY, VK_ERROR_INITIALIZATION_FAILED}
NoAnswer == [res |-> "not called", key |-> "", resources |-> FALSE]
\* A successful creation hands out a handle whose key no live object has.
CreationOracles(ci, live) ==
    IF ~ci.link THEN {NoAnswer}
    ELSE [res : CreationFailures, key : {""}, resources : {FALSE}]
         \cup [res : {VK_SUCCESS}, key : DispatchKeys \ live, resources : BOOLEAN]

RegistryOp(name, info, drv) == [name |-> name, info |-> info, drv |-> drv]
RegistryPre == [instances_ |-> instances_, devices_ |-> devices_]

RegistryInit ==
    /\ enabled = TRUE
    /\ dev = NewDevice
    /\ unaugmented = {}
    /\ pResults = <<>>
    /\ op = RegistryOp("Idle", <<>>, <<>>)
    /\ pre = [instances_ |-> <<>>, devices_ |-> <<>>]
    /\ calls = <<>>
    /\ ret = VK_SUCCESS
    /\ instances_ = <<>>
    /\ devices_ = <<>>
    /\ liveDevices = {}
    /\ liveInstances = {}
    /\ TimingAtRest
    /\ QueueAtRest
    /\ LockAtRest

RegistryHostContinues ==
    /\ op.name # "Idle"
    /\ op' = RegistryOp("Idle", <<>>, <<>>)
    /\ pre' = RegistryPre
    /\ calls' = <<>>
    /\ ret' = VK_SUCCESS
    /\ UNCHANGED <<layerVars, registryVars, timingVars, queueVars, lockVars>>

CreateInstance ==
    /\ op.name = "Idle"
    /\ \E ci \in InstanceCreateInfos :
       \E drv \in CreationOracles(ci, liveInstances) :
         LET r == onCreateInstance(instances_, ci, drv)
         IN /\ instances_' = r.instances
            /\ liveInstances' = IF r.ret = VK_SUCCESS
                                THEN liveInstances \cup {drv.key} ELSE liveInstances
            /\ op' = RegistryOp("CreateInstance", ci, drv)
            /\ pre' = RegistryPre
            /\ calls' = r.calls
            /\ ret' = r.ret
            /\ UNCHANGED <<devices_, liveDevices>>
            /\ UNCHANGED <<layerVars, timingVars, queueVars, lockVars>>

DestroyInstance ==
    /\ op.name = "Idle"
    /\ \E key \in liveInstances :
         LET r == onDestroyInstance(instances_, key)
         IN /\ instances_' = r.instances
            /\ liveInstances' = liveInstances \ {key}
            /\ op' = RegistryOp("DestroyInstance", key, <<>>)
            /\ pre' = RegistryPre
            /\ calls' = r.calls
            /\ ret' = VK_SUCCESS
            /\ UNCHANGED <<devices_, liveDevices>>
            /\ UNCHANGED <<layerVars, timingVars, queueVars, lockVars>>

CreateDevice ==
    /\ op.name = "Idle"
    /\ \E ci \in DeviceCreateInfos :
       \E drv \in CreationOracles(ci, liveDevices) :
         LET r == onCreateDevice(devices_, ci, drv)
         IN /\ devices_' = r.devices
            /\ liveDevices' = IF r.ret = VK_SUCCESS
                              THEN liveDevices \cup {drv.key} ELSE liveDevices
            /\ op' = RegistryOp("CreateDevice", ci, drv)
            /\ pre' = RegistryPre
            /\ calls' = r.calls
            /\ ret' = r.ret
            /\ UNCHANGED <<instances_, liveInstances>>
            /\ UNCHANGED <<layerVars, timingVars, queueVars, lockVars>>

DestroyDevice ==
    /\ op.name = "Idle"
    /\ \E key \in liveDevices :
         LET r == onDestroyDevice(devices_, key)
         IN /\ devices_' = r.devices
            /\ liveDevices' = liveDevices \ {key}
            /\ op' = RegistryOp("DestroyDevice", key, <<>>)
            /\ pre' = RegistryPre
            /\ calls' = r.calls
            /\ ret' = VK_SUCCESS
            /\ UNCHANGED <<instances_, liveInstances>>
            /\ UNCHANGED <<layerVars, timingVars, queueVars, lockVars>>

\* The host asks the layer for a device-level entry point of a live device.
GetDeviceProcAddr ==
    /\ op.name = "Idle"
    /\ \E key \in liveDevices, pName \in LookupNames :
         LET r == getDeviceProcAddr(devices_, key, pName)
         IN /\ devices_' = r.devices
            /\ op' = RegistryOp("GetDeviceProcAddr", [key |-> key, pName |-> pName], <<>>)
            /\ pre' = RegistryPre
            /\ calls' = r.calls
            /\ ret' = r.ret
            /\ UNCHANGED <<instances_, liveInstances, liveDevices>>
            /\ UNCHANGED <<layerVars, timingVars, queueVars, lockVars>>

\* The host asks the layer for an entry point through a live instance.
GetInstanceProcAddr ==
    /\ op.name = "Idle"
    /\ \E key \in liveInstances, pName \in LookupNames :
         LET r == getInstanceProcAddr(instances_, key, pName)
         IN /\ instances_' = r.instances
            /\ op' = RegistryOp("GetInstanceProcAddr", [key |-> key, pName |-> pName], <<>>)
            /\ pre' = RegistryPre
            /\ calls' = r.calls
            /\ ret' = r.ret
            /\ UNCHANGED <<devices_, liveInstances, liveDevices>>
            /\ UNCHANGED <<layerVars, timingVars, queueVars, lockVars>>

\* The counts the host passes and the arrays it passes them with: none, or
\* one of MaxPropertyCount elements, fresh or as an earlier call filled it.
MaxPropertyCount == 2
PropertyBuffers ==
    {NoBuffer,
     [i \in 1..MaxPropertyCount |-> Unwritten],
     [[i \in 1..MaxPropertyCount |-> Unwritten] EXCEPT ![1] = layerProps]}

\* vkEnumerateInstanceLayerProperties (vkEnumerateDeviceLayerProperties calls
\* the same function).
EnumerateLayerProperties ==
    /\ op.name = "Idle"
    /\ \E count \in 0..MaxPropertyCount, buffer \in PropertyBuffers :
         LET r == EnumerateInstanceLayerProperties(count, buffer)
         IN /\ op' = RegistryOp("EnumerateInstanceLayerProperties",
                                [pPropertyCount |-> count, pProperties |-> buffer],
                                [pPropertyCount |-> r.count, pProperties |-> r.properties])
            /\ pre' = RegistryPre
            /\ calls' = <<>>
            /\ ret' = r.ret
            /\ UNCHANGED registryVars
            /\ UNCHANGED <<layerVars, timingVars, queueVars, lockVars>>

\* onQueuePresent, onCreateSwapchain and onDestroySwapchain as the registry
\* sees them: each begins by taking the record with getDeviceData(key).  The
\* host calls them on a live device created with VK_KHR_swapchain.
DeviceEntryPoints == {"QueuePresent", "CreateSwapchain", "DestroySwapchain"}
DeviceEntryPoint ==
    /\ op.name = "Idle"
    /\ \E key \in liveDevices, name \in DeviceEntryPoints :
         /\ key \in DOMAIN devices_
         /\ "QueuePresentKHR" \in devices_[key].table
         /\ devices_' = getDeviceData(devices_, key).devices
         /\ op' = RegistryOp(name, key, <<>>)
         /\ pre' = RegistryPre
         /\ calls' = <<>>
         /\ ret' = VK_SUCCESS
         /\ UNCHANGED <<instances_, liveInstances, liveDevices>>
         /\ UNCHANGED <<layerVars, timingVars, queueVars, lockVars>>

RegistryNext ==
    \/ RegistryHostContinues
    \/ CreateInstance
    \/ DestroyInstance
    \/ CreateDevice
    \/ DestroyDevice
    \/ GetDeviceProcAddr
    \/ GetInstanceProcAddr
    \/ EnumerateLayerProperties
    \/ DeviceEntryPoint

RegistrySpec == RegistryInit /\ [][RegistryNext]_vars

\* ------------------------------------------------------------------ timing controller
\* TimingController (pipeline/frame_queue.h).  Scale and quality are kept in
\* hundredths (0.25f is 25), frame times in milliseconds, temperatures in
\* degrees Celsius.
\*
\* frameHistory_ is kept as the multiset of its samples: the code reads the
\* deque only through its sum, maximum, minimum and size.  The order of the
\* samples matters to pop_front alone, which runs once more than HISTORY_SIZE
\* samples are held; FrameComplete feeds at most MaxFrames <= HISTORY_SIZE
\* samples to a controller, so no sample is dropped.
HISTORY_SIZE == 60
MaxFrames == 31   \* samples fed to one controller
MaxRun == 10      \* ghost: over-budget runs are counted up to here

\* Frame times the engine reports, and what getGpuTemperature reads
\* (0 = no thermal zone could be read).
FrameTimes == {4, 12}
Temperatures == {0, 75, 80, 85, 90}

\* Config as the engine may hand it to init: the defaults of framegen_types.h
\* (thermal protection on); and, with thermal protection off, the defaults, a
\* full-resolution model scale, and a budget of 5 ms, which the 4 ms samples
\* meet without reaching 70 % of it.
ConfigSeeds ==
    [max_frame_time_ns : {8000000}, quality : {50}, model_scale : {50},
     thermal_protection : BOOLEAN]
    \cup {[max_frame_time_ns |-> 8000000, quality |-> 50, model_scale |-> 100,
           thermal_protection |-> FALSE],
          [max_frame_time_ns |-> 5000000, quality |-> 50, model_scale |-> 50,
           thermal_protection |-> FALSE]}

ns_to_ms(ns) == ns \div 1000000

\* AdaptiveState, default-constructed.  avgMs is kept as the exact quotient
\* sum / n.
DefaultAdaptiveState ==
    [currentScale |-> 50, currentQuality |-> 50, targetMs |-> 8,
     avgMs |-> [sum |-> 0, n |-> 1], maxMs |-> 0, minMs |-> 999,
     throttled |-> FALSE,
     consecutiveOverBudget |-> 0, consecutiveUnderBudget |-> 0]

EmptyHistory == [t \in FrameTimes |-> 0]
HistorySize(h) == h[4] + h[12]
HistorySum(h) == 4 * h[4] + 12 * h[12]
push_back(h, t) == [h EXCEPT ![t] = @ + 1]

\* TimingController::init
init(config) ==
    [DefaultAdaptiveState EXCEPT
        !.targetMs = ns_to_ms(config.max_frame_time_ns),
        !.currentScale = config.model_scale,
        !.currentQuality = config.quality]

\* adjustQuality with the reset of the two counters left out.
adjustQualityKeepCounters(config, st, overBudget) ==
    LET s1 == IF overBudget
              THEN [st EXCEPT !.currentScale = Max(25, st.currentScale - 10),
                              !.currentQuality = Max(0, st.currentQuality - 15)]
              ELSE [st EXCEPT !.currentScale = Min(75, st.currentScale + 5),
                              !.currentQuality = Min(100, st.currentQuality + 5)]
    IN [config |-> [config EXCEPT !.model_scale = s1.currentScale,
                                  !.quality = s1.currentQuality],
        state |-> s1]

\* TimingController::adjustQuality
adjustQuality(config, st, overBudget) ==
    LET s1 == IF overBudget
              THEN [st EXCEPT !.currentScale = Max(25, st.currentScale - 10),
                              !.currentQuality = Max(0, st.currentQuality - 15)]
              ELSE [st EXCEPT !.currentScale = Min(75, st.currentScale + 5),
                              !.currentQuality = Min(100, st.currentQuality + 5)]
    IN [config |-> [config EXCEPT !.model_scale = s1.currentScale,
                                  !.quality = s1.currentQuality],
        state |-> [s1 EXCEPT !.consecutiveOverBudget = 0,
                             !.consecutiveUnderBudget = 0]]

\* The thermal block entered whatever the configuration says.
ReadsTemperatureAlways(config) == TRUE

\* onFrameComplete enters the thermal block, and with it calls
\* getGpuTemperature, only with thermal protection on.
ReadsTemperature(config) == config.thermal_protection

\* The step-up test with a run of three samples in place of thirty.
StepUpReadyEarly(st) ==
    /\ st.consecutiveUnderBudget >= 3
    /\ 10 * st.avgMs.sum < 7 * st.targetMs * st.avgMs.n

\* The step-up test of onFrameComplete: avgMs < targetMs * 0.7f after thirty
\* samples on budget in a row.
StepUpReady(st) ==
    /\ st.consecutiveUnderBudget >= 30
    /\ 10 * st.avgMs.sum < 7 * st.targetMs * st.avgMs.n

\* TimingController::onFrameComplete; temp is what getGpuTemperature returns
\* at the time of the call, whether the call reads it or not.  `calls` lists
\* the adjustments made: adjustQuality with its argument, or the critical
\* clamp.
onFrameComplete(config, st, hist, frameTimeMs, temp) ==
    LET h1 == push_back(hist, frameTimeMs)
        overBudget == frameTimeMs > st.targetMs
        s1 == [st EXCEPT
                 !.avgMs = [sum |-> HistorySum(h1), n |-> HistorySize(h1)],
                 !.maxMs = IF h1[12] > 0 THEN 12 ELSE 4,
                 !.minMs = IF h1[4] > 0 THEN 4 ELSE 12,
                 !.consecutiveOverBudget = IF overBudget THEN @ + 1 ELSE 0,
                 !.consecutiveUnderBudget = IF overBudget THEN 0 ELSE @ + 1]
        s2 == IF ReadsTemperature(config)
              THEN [s1 EXCEPT !.throttled = (temp > 75)] ELSE s1
        down == adjustQuality(config, s2, TRUE)
        up == adjustQuality(config, s2, FALSE)
    IN IF ReadsTemperature(config) /\ temp > 85
       THEN [config |-> [config EXCEPT !.model_scale = 25, !.quality = 0],
             state |-> [s2 EXCEPT !.currentScale = 25, !.currentQuality = 0],
             history |-> h1, calls |-> <<Call("clamp", temp)>>, ret |-> FALSE]
       ELSE IF ReadsTemperature(config) /\ s2.throttled
               /\ s2.consecutiveOverBudget >= 3
       THEN [config |-> down.config, state |-> down.state, history |-> h1,
             calls |-> <<Call("adjustQuality", TRUE)>>, ret |-> FALSE]
       ELSE IF s2.consecutiveOverBudget >= 5
       THEN [config |-> down.config, state |-> down.state, history |-> h1,
             calls |-> <<Call("adjustQuality", TRUE)>>, ret |-> FALSE]
       ELSE IF StepUpReady(s2)
       THEN [config |-> up.config, state |-> up.state, history |-> h1,
             calls |-> <<Call("adjustQuality", FALSE)>>, ret |-> ~overBudget]
       ELSE [config |-> config, state |-> s2, history |-> h1,
             calls |-> <<>>, ret |-> ~overBudget]

\* Ghost of the last call: its argument, the temperature it read (0 when it
\* read none), and the position of the sample in
\* the current run of over-budget samples.  run = 0: the sample was on budget;
\* run = -1: some sample of the run was taken while the temperature was above
\* 75 degrees with thermal protection on; downs: the step-downs of the run;
\* streak: the over-budget samples in a row up to this one since the last
\* sample that was on budget or stepped the settings down, and likewise
\* under: the samples on budget in a row since the last step.
TimingOp(name, frameTimeMs, temp, run, downs, streak, under) ==
    [name |-> name, frameTimeMs |-> frameTimeMs, temp |-> temp,
     run |-> run, downs |-> downs, streak |-> streak, under |-> under]
\* The two settings as they were when the call was entered.
TimingPre == [currentScale |-> state_.currentScale, currentQuality |-> state_.currentQuality]

Stepped == calls # <<>> /\ calls[1].fn = "adjustQuality"
NextStreak(frameTimeMs) ==
    IF frameTimeMs <= state_.targetMs THEN 0
    ELSE IF Stepped THEN 1 ELSE Min(op.streak + 1, MaxRun + 1)
NextUnder(frameTimeMs) ==
    IF frameTimeMs > state_.targetMs THEN 0
    ELSE IF Stepped THEN 1 ELSE op.under + 1

NextRun(config, frameTimeMs, temp) ==
    IF frameTimeMs <= state_.targetMs THEN 0
    ELSE IF op.run = -1 \/ (config.thermal_protection /\ temp > 75) THEN -1
    ELSE Min(op.run + 1, MaxRun + 1)

\* A controller constructed and not yet initialised, next to the Config the
\* engine is about to hand it.
TimingInit ==
    /\ enabled = TRUE
    /\ dev = NewDevice
    /\ unaugmented = {}
    /\ pResults = <<>>
    /\ RegistryAtRest
    /\ QueueAtRest
    /\ LockAtRest
    /\ config_ \in ConfigSeeds
    /\ state_ = DefaultAdaptiveState
    /\ frameHistory_ = EmptyHistory
    /\ op = TimingOp("Constructed", 0, 0, 0, 0, 0, 0)
    /\ pre = TimingPre
    /\ calls = <<>>
    /\ ret = TRUE

ControllerInit ==
    /\ op.name = "Constructed"
    /\ state_' = init(config_)
    /\ op' = TimingOp("init", 0, 0, 0, 0, 0, 0)
    /\ pre' = TimingPre
    /\ calls' = <<>>
    /\ ret' = TRUE
    /\ UNCHANGED <<config_, frameHistory_>>
    /\ UNCHANGED <<layerVars, registryVars, queueVars, lockVars>>

FrameComplete ==
    /\ op.name # "Constructed"
    /\ HistorySize(frameHistory_) < Min(MaxFrames, HISTORY_SIZE)
    /\ \E frameTimeMs \in FrameTimes, temp \in Temperatures :
         LET r == onFrameComplete(config_, state_, frameHistory_, frameTimeMs, temp)
             run == NextRun(config_, frameTimeMs, temp)
             stepped == r.calls = <<Call("adjustQuality", TRUE)>>
             downs == IF run <= 0 THEN 0
                      ELSE IF run = 1 THEN (IF stepped THEN 1 ELSE 0)
                      ELSE Min(op.downs + (IF stepped THEN 1 ELSE 0), MaxRun)
         IN /\ config_' = r.config
            /\ state_' = r.state
            /\ frameHistory_' = r.history
            /\ op' = TimingOp("FrameComplete", frameTimeMs,
                               IF ReadsTemperature(config_) THEN temp ELSE 0,
                               run, downs,
                               NextStreak(frameTimeMs), NextUnder(frameTimeMs))
            /\ pre' = TimingPre
            /\ calls' = r.calls
            /\ ret' = r.ret
            /\ UNCHANGED <<layerVars, registryVars, queueVars, lockVars>>

TimingNext ==
    \/ ControllerInit
    \/ FrameComplete

TimingSpec == TimingInit /\ [][TimingNext]_vars

\* ------------------------------------------------------------------ frame presenter
\* FramePresenter (pipeline/frame_presenter.cpp): the interpolation thread
\* takes captured frames from capturedQueue_ in capture order (frame n is the
\* n-th it takes) and fills presentQueue_q_, the presentation thread empties
\* it, and the host may change the mode between two frames.  One pass of the
\* loop that found a frame is one step.
MaxCaptured == 4
PresentCapacity == 16
Modes == {"OFF", "FPS_60", "FPS_90", "FPS_120"}

\* FrameData of the n-th captured frame, and of the i-th frame interpolated
\* from the captured frames a and b (from and step are ghosts).
Original(n) == [frame_index |-> n, is_interpolated |-> FALSE, from |-> <<n, n>>, step |-> 0]
Generated(a, b, i) ==
    [frame_index |-> a.frame_index, is_interpolated |-> TRUE,
     from |-> <<a.frame_index, b.frame_index>>, step |-> i]

\* FramePresenter::getInterpolationCount
getInterpolationCount(m) ==
    CASE m = "OFF" -> 0
      [] m = "FPS_60" -> 1
      [] m = "FPS_90" -> 2
      [] m = "FPS_120" -> 3

\* RifeEngine::interpolateMulti; `within` is the number of interpolate calls
\* that stay within the time budget.
interpolateMulti(frame1, frame2, count, within) ==
    IF within >= count
    THEN [success |-> TRUE,
          outputs |-> [i \in 1..count |-> Generated(frame1, frame2, i)]]
    ELSE [success |-> within > 0,
          outputs |-> [i \in 1..within |-> Generated(frame1, frame2, i)]]

\* presentQueue_q_.push of the frames fs one after the other, up to the first
\* that finds the queue full.
PushUntilFull(q, fs) ==
    LET room == (PresentCapacity - 1) - Len(q)
    IN SubSeq(fs, 1, Min(Len(fs), room))

\* One pass of interpolationLoop with a frame in capturedQueue_: the frames it
\* gets presentQueue_q_ to accept.
interpolationLoop(m, hasPrevious, previous, currentFrame, within) ==
    LET interpCount == getInterpolationCount(m)
        r == interpolateMulti(previous, currentFrame, interpCount, within)
    IN IF ~hasPrevious THEN <<currentFrame>>
       ELSE IF interpCount = 0 \/ m = "OFF" THEN <<currentFrame>>
       ELSE IF r.success THEN <<previous>> \o r.outputs
       ELSE <<previous>>

PresenterInit ==
    /\ enabled = TRUE
    /\ dev = NewDevice
    /\ unaugmented = {}
    /\ pResults = <<>>
    /\ op = Idle
    /\ pre = NewDevice
    /\ calls = <<>>
    /\ ret = VK_SUCCESS
    /\ RegistryAtRest
    /\ TimingAtRest
    /\ LockAtRest
    /\ FrameQueueAtRest
    /\ mode = "FPS_60"
    /\ previousFrame_ = Original(0)
    /\ hasPreviousFrame_ = FALSE
    /\ presentQueue_q_ = <<>>
    /\ taken = 0
    /\ pushes = <<>>

PresenterFrame ==
    UNCHANGED <<layerVars, registryVars, timingVars, lockVars,
                buffer_, head_, tail_, droppedFrames_, producer, consumer,
                accepted, popped, sizer, op, pre, calls, ret>>

\* FramePresenter::setMode
SetMode ==
    /\ \E m \in Modes \ {mode} : mode' = m
    /\ UNCHANGED <<previousFrame_, hasPreviousFrame_, presentQueue_q_, taken, pushes>>
    /\ PresenterFrame

\* interpolationLoop, one pass from the pop of line 89 to the end of the body.
InterpolationPass ==
    /\ taken < MaxCaptured
    /\ \E within \in 0..getInterpolationCount(mode) :
         LET currentFrame == Original(taken + 1)
             fs == interpolationLoop(mode, hasPreviousFrame_, previousFrame_,
                                     currentFrame, within)
             fit == PushUntilFull(presentQueue_q_, fs)
         IN /\ presentQueue_q_' = presentQueue_q_ \o fit
            /\ pushes' = pushes \o fit
            /\ previousFrame_' = currentFrame
            /\ hasPreviousFrame_' = TRUE
            /\ taken' = taken + 1
    /\ UNCHANGED mode
    /\ PresenterFrame

\* presentationLoop, the pop of line 180.
PresentationPop ==
    /\ presentQueue_q_ # <<>>
    /\ presentQueue_q_' = Tail(presentQueue_q_)
    /\ UNCHANGED <<mode, previousFrame_, hasPreviousFrame_, taken, pushes>>
    /\ PresenterFrame

PresenterNext ==
    \/ SetMode
    \/ InterpolationPass
    \/ PresentationPop

PresenterSpec == PresenterInit /\ [][PresenterNext]_vars

\* ------------------------------------------------------------------ engine next to controller
\* The frame-doubling engine and a TimingController of the same process: the
\* controller is initialised with thermal protection on and takes one sample,
\* at a critical temperature, before the host goes on to create a surface
\* chain and to present.  The
\* layer holds no reference to a TimingController: none of its entry points
\* reads or writes the controller's variables.
ThrottleInit ==
    /\ TimingInit
    /\ config_.thermal_protection

\* The one sample the controller takes, right after init: a frame on budget
\* while getGpuTemperature reads above the critical 85 degrees.
CriticalSample ==
    /\ op.name = "init"
    /\ \E frameTimeMs \in {t \in FrameTimes : t <= state_.targetMs},
          temp \in {t \in Temperatures : t > 85} :
         LET r == onFrameComplete(config_, state_, frameHistory_, frameTimeMs, temp)
         IN /\ config_' = r.config
            /\ state_' = r.state
            /\ frameHistory_' = r.history
            /\ op' = TimingOp("FrameComplete", frameTimeMs, temp, 0, 0, 0, 1)
            /\ pre' = TimingPre
            /\ calls' = r.calls
            /\ ret' = r.ret
            /\ UNCHANGED <<layerVars, registryVars, queueVars, lockVars>>

\* The host goes on once the controller has its sample.
HostContinuesAfterSample ==
    /\ op.name \notin {"Constructed", "init"}
    /\ HostContinues

ThrottleNext ==
    \/ ControllerInit
    \/ CriticalSample
    \/ HostContinuesAfterSample
    \/ CreateSwapchain
    \/ QueuePresent

ThrottleSpec == ThrottleInit /\ [][ThrottleNext]_vars

\* ================================================================== claims
\* Vocabulary of the claims, read off the observation of the last call.
Succeeded(r) == r \in {VK_SUCCESS, VK_SUBOPTIMAL_KHR}
IsPresentOp == op.name = "QueuePresent"
IsCreateOp == op.name = "CreateSwapchain"
CallsOf(fn) == SelectSeq(calls, LAMBDA c : c.fn = fn)
PresentCalls == CallsOf("QueuePresentKHR")
AcquireCalls == CallsOf("AcquireNextImageKHR")
SubmitCalls == CallsOf("QueueSubmit")
Positions(fn) == {i \in 1..Len(calls) : calls[i].fn = fn}
\* The first chain and image index of the present, and the image G they name.
FirstChain == op.info.pSwapchains[1]
FirstIndex == op.info.pImageIndices[1]
GameImage == SwapchainImage(pre.swapchains[FirstChain].images[FirstIndex + 1])
\* The present reached Step 1 (it was not passed through).
NonBypass == IsPresentOp /\ op.path \in {"first", "augmented"}
\* The call sequence is the single passthrough present of the caller's info.
PureBypass ==
    /\ Len(calls) = 1
    /\ calls[1].fn = "QueuePresentKHR"
    /\ calls[1].params = op.info
    /\ ret = calls[1].res
MirrorUnchanged ==
    /\ dev.prevFrame = pre.prevFrame
    /\ dev.curFrame = pre.curFrame
    /\ dev.hasPrev = pre.hasPrev
    /\ dev.captureW = pre.captureW
    /\ dev.captureH = pre.captureH
    /\ dev.captureFormat = pre.captureFormat
\* A blit from a staging image into swapchain image `dst` is recorded at i.
IsBlitInto(i, dst) ==
    /\ calls[i].fn = "CmdBlitImage"
    /\ calls[i].params.dst = dst
    /\ calls[i].params.src.kind = "staging"

\* Two next-layer presents: the first of (chain, caller's index) after the
\* blit of the previous frame into G was submitted, the second of (chain,
\* acquired index) after the blit of the captured frame into the acquired
\* image was submitted; the captured frame is the one the host rendered.
TwoPresentsInOrder ==
    LET ps == Positions("QueuePresentKHR")
        ss == Positions("QueueSubmit")
    IN /\ Cardinality(ps) = 2
       /\ Len(AcquireCalls) = 1
       /\ \E p1, p2 \in ps :
            /\ p1 < p2
            /\ calls[p1].params.pSwapchains = <<FirstChain>>
            /\ calls[p1].params.pImageIndices = <<FirstIndex>>
            /\ calls[p2].params.pSwapchains = <<FirstChain>>
            /\ calls[p2].params.pImageIndices = <<AcquireCalls[1].params.newIndex>>
            /\ \E b \in 1..p1, sb \in ss :
                 IsBlitInto(b, GameImage) /\ b < sb /\ sb < p1
            /\ \E b \in p1..p2, sb \in ss :
                 /\ IsBlitInto(b, SwapchainImage(
                        pre.swapchains[FirstChain].images[
                            AcquireCalls[1].params.newIndex + 1]))
                 /\ b < sb /\ sb < p2
       /\ op.real = [known |-> TRUE, age |-> 0]

\* C1 as stated: every present that executed stage B1 makes exactly two
\* next-layer presents, the synthesised one and then the real one.
C1_TwoPresentsAlways ==
    (IsPresentOp /\ op.stageB1) => TwoPresentsInOrder

\* C1 amended: a present that executed stage B1 always presents the
\* synthesised image first; it acquires exactly when that present returned
\* success or sub-optimal, and makes the second, real present (in that order)
\* exactly when the acquire returned success or sub-optimal too; otherwise the
\* synthesised present is the only one.
C1_TwoPresentsWhenDriverOk ==
    (IsPresentOp /\ op.stageB1) =>
        /\ Len(PresentCalls) >= 1
        /\ PresentCalls[1].params.pSwapchains = <<FirstChain>>
        /\ PresentCalls[1].params.pImageIndices = <<FirstIndex>>
        /\ Len(AcquireCalls) = (IF Succeeded(PresentCalls[1].res) THEN 1 ELSE 0)
        /\ IF Len(AcquireCalls) = 1 /\ Succeeded(AcquireCalls[1].res)
           THEN TwoPresentsInOrder
           ELSE Len(PresentCalls) = 1

C1_Witness ==
    IsPresentOp /\ op.stageB1 /\ Len(PresentCalls) = 2 /\ Len(AcquireCalls) = 1

\* The present is the first non-bypass one after a mirror (re)configuration:
\* has_previous was false on entry, or the present reconfigured the mirror itself.
FirstAfterReconfiguration ==
    NonBypass /\ (~pre.hasPrev \/ Len(CallsOf("DeviceWaitIdle")) > 0)

\* C2: the first non-bypass present after a mirror (re)configuration issues
\* exactly one submit, then exactly one present of the caller's chains and
\* indices, no acquire, and returns with has_previous true.
C2_FirstPresent ==
    FirstAfterReconfiguration =>
        /\ Len(SubmitCalls) = 1
        /\ Len(PresentCalls) = 1
        /\ Len(AcquireCalls) = 0
        /\ \A i \in Positions("QueueSubmit"), j \in Positions("QueuePresentKHR") : i < j
        /\ PresentCalls[1].params.pSwapchains = op.info.pSwapchains
        /\ PresentCalls[1].params.pImageIndices = op.info.pImageIndices
        /\ dev.hasPrev

C2_Witness ==
    NonBypass /\ ~pre.hasPrev /\ Len(SubmitCalls) = 1 /\ dev.hasPrev

\* The four bypass conditions C3 names, read on the state at entry.
BypassCondition ==
    \/ ~enabled
    \/ op.info.swapchainCount = 0
    \/ FirstChain \notin DOMAIN pre.swapchains
    \/ FirstIndex >= Len(pre.swapchains[FirstChain].images)

\* C3: a present that meets a bypass condition issues exactly one next-layer
\* call, QueuePresent with the caller's unmodified present info, returns its
\* result, and leaves the staging mirror, has_previous and the fence unchanged.
C3_BypassIsPassthrough ==
    (IsPresentOp /\ BypassCondition) =>
        /\ PureBypass
        /\ MirrorUnchanged
        /\ dev.fence = pre.fence

C3_Witness ==
    /\ IsPresentOp /\ enabled /\ op.info.swapchainCount > 0
    /\ FirstChain \in DOMAIN pre.swapchains
    /\ FirstIndex >= Len(pre.swapchains[FirstChain].images)
    /\ pre.hasPrev /\ pre.curFrame.valid
    /\ PureBypass /\ ret = VK_ERROR_OUT_OF_DATE_KHR

\* C4: whenever stage B1 runs, the image blitted into G is the game image
\* captured by the preceding present sequence.
C4_PreviousIsLastCapture ==
    (IsPresentOp /\ op.stageB1) => op.synth = [known |-> TRUE, age |-> 1]

\* C5: the present returns a success code iff every submit, present and
\* acquire it made returned success or sub-optimal, and otherwise the first
\* non-success result among them.
C5_FirstErrorReturned ==
    IsPresentOp =>
        LET rs == SelectSeq(calls, LAMBDA c :
                    c.fn \in {"QueueSubmit", "QueuePresentKHR", "AcquireNextImageKHR"})
            bad == SelectSeq(rs, LAMBDA c : ~Succeeded(c.res))
        IN IF Len(bad) = 0 THEN Succeeded(ret) ELSE ret = bad[1].res

\* C6: whenever an entry point has returned (a present in particular,
\* bypassed, completed or cut short by a failed present or acquire) the
\* engine fence is signalled.
C6_FenceSignalledAtReturn ==
    dev.fence = "signaled"

C6_Witness ==
    /\ IsPresentOp /\ op.stageB1
    /\ Len(AcquireCalls) = 1 /\ ~Succeeded(AcquireCalls[1].res)
    /\ dev.fence = "signaled"

\* C7: every present whose first chain was created by the verbatim retry is
\* bypassed.
C7_UnaugmentedChainBypassed ==
    (IsPresentOp /\ op.info.swapchainCount > 0 /\ FirstChain \in unaugmented) =>
        PureBypass

\* C8: the two staging images are both valid or both absent.
C8_BothOrNeither ==
    /\ dev.prevFrame.valid = dev.curFrame.valid
    /\ dev.prevFrame.valid \/ dev.prevFrame.image = VK_NULL_HANDLE
    /\ dev.curFrame.valid \/ dev.curFrame.image = VK_NULL_HANDLE

\* C9: while the mirror is not set up (a staging image or its memory could not
\* be created), a present is a pure bypass: one next-layer present with the
\* caller's arguments and nothing else.
C9_FailedMirrorBypasses ==
    (IsPresentOp /\ ~(pre.prevFrame.valid /\ pre.curFrame.valid)) => PureBypass

\* The mirror already matches the creation structure: ensure has nothing to do.
MirrorMatches(d, ci) ==
    /\ d.curFrame.valid
    /\ d.captureW = ci.width /\ d.captureH = ci.height
    /\ d.captureFormat = ci.imageFormat

\* C10 as stated: every successful onCreateSwapchain leaves has_previous false.
C10_CreateAlwaysResets ==
    (IsCreateOp /\ ret = VK_SUCCESS) => ~dev.hasPrev

\* C10 amended: a successful onCreateSwapchain whose (width, height, format)
\* differ from those the mirror is sized for (or whose mirror has no valid
\* current image) sizes the mirror for the new chain and leaves has_previous
\* false; one that matches the mirror issues no staging call and keeps
\* has_previous; and a non-bypass present entered with has_previous false
\* makes one next-layer present and records no blit.
C10_CreateResetsOnResize ==
    /\ (IsCreateOp /\ ret = VK_SUCCESS /\ ~MirrorMatches(pre, op.info.ci)) =>
          /\ ~dev.hasPrev
          /\ dev.captureW = op.info.ci.width
          /\ dev.captureH = op.info.ci.height
          /\ dev.captureFormat = op.info.ci.imageFormat
          /\ Len(CallsOf("DeviceWaitIdle")) = 1
    /\ (IsCreateOp /\ ret = VK_SUCCESS /\ MirrorMatches(pre, op.info.ci)) =>
          /\ MirrorUnchanged
          /\ Len(CallsOf("DeviceWaitIdle")) = 0
          /\ Len(CallsOf("CreateImage")) = 0
    /\ (NonBypass /\ ~pre.hasPrev) =>
          /\ Len(PresentCalls) = 1
          /\ Len(CallsOf("CmdBlitImage")) = 0

C10_Witness ==
    /\ IsCreateOp /\ ret = VK_SUCCESS
    /\ pre.hasPrev /\ ~MirrorMatches(pre, op.info.ci)
    /\ ~dev.hasPrev /\ dev.curFrame.valid /\ dev.prevFrame.valid

\* Positions of the next-layer presents of the call that present chain number
\* i of the caller's present info with the caller's image index.
ForwardsOf(i) ==
    { k \in Positions("QueuePresentKHR") :
        \E j \in 1..calls[k].params.swapchainCount :
            /\ calls[k].params.pSwapchains[j] = op.info.pSwapchains[i]
            /\ calls[k].params.pImageIndices[j] = op.info.pImageIndices[i] }

\* C12: in a non-bypass present naming more than one chain, every chain after
\* the first is presented to the next layer with the caller's image index
\* exactly once, after the first command-buffer submit.
C12_AdditionalChainsForwarded ==
    (NonBypass /\ op.info.swapchainCount > 1) =>
        \A i \in 2..op.info.swapchainCount :
            /\ Cardinality(ForwardsOf(i)) = 1
            /\ \A k \in ForwardsOf(i) : \E q \in Positions("QueueSubmit") : q < k

\* C13: when the caller supplies a result array, every entry holds, at
\* return, the driver's result for presenting that chain.
C13_ResultArrayPopulated ==
    (IsPresentOp /\ op.info.pResults) =>
        \A i \in 1..op.info.swapchainCount : pResults[i] \in PresentResults

\* The next-layer creations of the call.
CreateCalls == CallsOf("CreateSwapchainKHR")

\* C15: when the augmented creation fails the next layer is asked exactly once
\* more, with the caller's structure verbatim; when that fails too its result
\* is returned, nothing else is called, and the chains, the staging mirror and
\* has_previous are as before the call.  A successful augmented creation is
\* not retried.
C15_RetryOnceVerbatim ==
    IsCreateOp =>
        /\ Len(CreateCalls) >= 1
        /\ IF CreateCalls[1].res = VK_SUCCESS
           THEN Len(CreateCalls) = 1
           ELSE /\ Len(CreateCalls) = 2
                /\ CreateCalls[2].params = op.info.ci
                /\ CreateCalls[2].res # VK_SUCCESS =>
                      /\ ret = CreateCalls[2].res
                      /\ Len(calls) = 2
                      /\ dev = pre

C15_Witness ==
    /\ IsCreateOp
    /\ Len(CreateCalls) = 2
    /\ ret = VK_ERROR_OUT_OF_DEVICE_MEMORY
    /\ pre.hasPrev /\ dev.hasPrev
    /\ DOMAIN pre.swapchains # {}

\* b = a + 1 as numbers (no wrap-around).
IsSuccessor(a, b) ==
    \/ a.hi = b.hi /\ b.lo = a.lo + 1
    \/ a.lo = HALF - 1 /\ b.lo = 0 /\ b.hi = a.hi + 1

\* C14: the first creation attempt carries min_image_count = max(requested + 1,
\* 3) (so more than requested and at least 3), image_usage = the caller's
\* usage plus the two transfer bits, and every other field of the caller's
\* structure; the caller's structure is the one the call was entered with.
C14_FirstAttemptAugmented ==
    IsCreateOp =>
        LET sent == CreateCalls[1].params
            asked == op.info.ci
        IN /\ U32Less(asked.minImageCount, sent.minImageCount)
           /\ ~U32Less(sent.minImageCount, U32(0, 3))
           /\ \/ sent.minImageCount = U32(0, 3)
              \/ IsSuccessor(asked.minImageCount, sent.minImageCount)
           /\ sent.imageUsage = asked.imageUsage \cup TRANSFER_BITS
           /\ sent.imageFormat = asked.imageFormat
           /\ sent.width = asked.width
           /\ sent.height = asked.height

\* ------------------------------------------------------------------ C11
IsRegistryCreate == op.name \in {"CreateInstance", "CreateDevice"}
OtherDeviceOperation == op.name \in DeviceEntryPoints \cup {"GetDeviceProcAddr"}
FullyPopulated(d) == d.table = DeviceFunctions

\* C11: the registry holds a record for a key exactly when onCreateDevice
\* succeeded for it and no onDestroyDevice for it has returned; a present, a
\* chain creation or destruction and a proc-address lookup leave the set of
\* records as it was; and every record has no null among its next-layer
\* functions.
C11_RecordsLiveAndPopulated ==
    /\ DOMAIN devices_ = liveDevices
    /\ (OtherDeviceOperation => devices_ = pre.devices_)
    /\ \A key \in DOMAIN devices_ : FullyPopulated(devices_[key])

\* ------------------------------------------------------------------ C16
CreationFailed ==
    /\ IsRegistryCreate
    /\ (~op.info.link \/ op.drv.res # VK_SUCCESS)
ResourceCalls ==
    Positions("CreateCommandPool") \cup Positions("AllocateCommandBuffers")
    \cup Positions("CreateFence")

\* C16: a creation hook that does not find its layer link returns
\* VK_ERROR_INITIALIZATION_FAILED; one whose next-layer creation fails returns
\* that result; either way both registries are as they were before the call
\* and no pool, command buffer or fence has been created.
C16_FailedCreationRecordsNothing ==
    IsRegistryCreate =>
        /\ (~op.info.link => ret = VK_ERROR_INITIALIZATION_FAILED)
        /\ (op.info.link /\ op.drv.res # VK_SUCCESS => ret = op.drv.res)
        /\ (CreationFailed =>
              /\ instances_ = pre.instances_
              /\ devices_ = pre.devices_
              /\ ResourceCalls = {})

\* A device creation the next layer refuses while another device and an
\* instance are registered.
C16_Witness ==
    /\ op.name = "CreateDevice"
    /\ op.info.link
    /\ op.drv.res = VK_ERROR_OUT_OF_DEVICE_MEMORY
    /\ ret = VK_ERROR_OUT_OF_DEVICE_MEMORY
    /\ DOMAIN devices_ # {}
    /\ DOMAIN instances_ # {}

\* ------------------------------------------------------------------ C17
IsFrameComplete == op.name = "FrameComplete"
AtMinimum(c, s) ==
    /\ s.currentScale = 25 /\ s.currentQuality = 0
    /\ c.model_scale = 25 /\ c.quality = 0

\* C17: with thermal protection on, an onFrameComplete call that samples a
\* temperature of 85 degrees or more leaves quality 0 and model scale 0.25 in
\* the controller state and in the config and reports throttled.
C17_CriticalAtOrAbove85 ==
    (IsFrameComplete /\ config_.thermal_protection /\ op.temp >= 85) =>
        /\ AtMinimum(config_, state_)
        /\ state_.throttled
        /\ ret = FALSE

\* ------------------------------------------------------------------ C18
SteppedDownFrom(p) ==
    /\ calls = <<Call("adjustQuality", TRUE)>>
    /\ state_.currentScale = Max(25, p.currentScale - 10)
    /\ state_.currentQuality = Max(0, p.currentQuality - 15)
    /\ state_.consecutiveOverBudget = 0
    /\ state_.consecutiveUnderBudget = 0

\* C18: in a run of over-budget samples taken while the temperature does not
\* drive the adjustment, the controller steps down once at every fifth sample
\* (quality -0.15, scale -0.10, clamped at the minima), resets both counters
\* there, and leaves the settings alone at the other samples; the tenth
\* sample of the run is its second step-down.
C18_FifthOverBudgetStepsDown ==
    (IsFrameComplete /\ op.run \in 1..MaxRun) =>
        /\ (op.run % 5 = 0 => SteppedDownFrom(pre))
        /\ (op.run % 5 # 0 =>
              /\ calls = <<>>
              /\ state_.currentScale = pre.currentScale
              /\ state_.currentQuality = pre.currentQuality
              /\ state_.consecutiveOverBudget = op.run % 5)
        /\ op.downs = op.run \div 5

\* The tenth over-budget sample in a row on the default settings: the second
\* step-down, from 0.40 / 0.35 to 0.30 / 0.20.
C18_Witness ==
    /\ IsFrameComplete
    /\ op.run = 10
    /\ op.downs = 2
    /\ pre.currentScale = 40 /\ pre.currentQuality = 35
    /\ state_.currentScale = 30 /\ state_.currentQuality = 20

\* ------------------------------------------------------------------ C19
\* C19: after init with any configuration seed and any sequence of
\* onFrameComplete calls the current model scale lies in [0.25, 0.75] and the
\* current quality in [0, 1].
C19_SettingsInRange ==
    op.name # "Constructed" =>
        /\ state_.currentScale \in 25..75
        /\ state_.currentQuality \in 0..100

\* ------------------------------------------------------------------ C20
\* C20: onFrameComplete returns true exactly when the sample is on budget,
\* and a call that returns false has stepped the settings down or clamped
\* them.
C20_FalseMeansAdjusted ==
    IsFrameComplete =>
        /\ (ret = TRUE <=> op.frameTimeMs <= state_.targetMs)
        /\ (ret = FALSE =>
              calls \in {<<Call("adjustQuality", TRUE)>>, <<Call("clamp", op.temp)>>})

\* ------------------------------------------------------------------ C24
\* C24: in a present that executed stage B1 the synthesised-presents counter
\* is incremented and vkAcquireNextImageKHR is called exactly when the
\* synthesised present returned success or sub-optimal; on any other result
\* the call makes no acquire, no second submit and no second present.
C24_StageDOnlyAfterGoodSynth ==
    (IsPresentOp /\ op.stageB1) =>
        LET interpResult == PresentCalls[1].res
        IN /\ (op.interps = 1 <=> Succeeded(interpResult))
           /\ (Len(AcquireCalls) = 1 <=> Succeeded(interpResult))
           /\ (~Succeeded(interpResult) =>
                 /\ AcquireCalls = <<>>
                 /\ Len(SubmitCalls) = 1
                 /\ Len(PresentCalls) = 1)

\* An augmented present whose synthesised present came back out-of-date.
C24_Witness ==
    /\ IsPresentOp /\ op.stageB1
    /\ PresentCalls[1].res = VK_ERROR_OUT_OF_DATE_KHR
    /\ op.interps = 0
    /\ Len(calls) > 0

\* ------------------------------------------------------------------ C25
FenceSignallers == Positions("QueueSubmit") \cup Positions("AcquireNextImageKHR")

\* C25: whenever the engine hands its fence to a queue submit or to
\* vkAcquireNextImageKHR the fence is unsignalled, the stage D acquire after
\* the stage C fence wait included.
C25_FenceUnsignalledWhenHandedOver ==
    \A n \in FenceSignallers : calls[n].params.fenceWas = "unsignaled"

\* ------------------------------------------------------------------ C26
Barriers == Positions("CmdPipelineBarrier")

\* The layout an image is in when the call is entered: a staging image has the
\* layout the mirror left it in, the game image is in present-source layout as
\* the host must have left it, nothing is known of the other chain images.
InitialLayout(ref) ==
    IF ref.kind = "staging"
    THEN IF pre.prevFrame.image = ref.id THEN pre.prevFrame.layout
         ELSE IF pre.curFrame.image = ref.id THEN pre.curFrame.layout
         ELSE "none"
    ELSE IF ref = GameImage THEN PRESENT_SRC ELSE "unknown"

\* The layout of an image after the first n calls of the entry point: a
\* barrier leaves it in its new layout, a newly created staging image is in
\* the undefined layout.
RECURSIVE LayoutAfter(_, _)
LayoutAfter(ref, n) ==
    IF n = 0 THEN InitialLayout(ref)
    ELSE LET c == calls[n]
         IN IF c.fn = "CmdPipelineBarrier" /\ c.params.image = ref
            THEN c.params.newLayout
            ELSE IF c.fn = "BindImageMemory" /\ ref.kind = "staging" /\ c.params = ref.id
            THEN UNDEFINED
            ELSE LayoutAfter(ref, n - 1)

\* C26: every barrier the engine records names as old layout either
\* "undefined" or the layout the image is in at that point.
C26_OldLayoutIsActualLayout ==
    IsPresentOp =>
        \A n \in Barriers :
            LET b == calls[n].params
            IN b.oldLayout = UNDEFINED \/ b.oldLayout = LayoutAfter(b.image, n - 1)

\* ------------------------------------------------------------------ C27
\* The wait at position n covers the last submit before it: that submit was
\* handed the fence unsignalled and the fence was not reset in between.
WaitCovers(n) ==
    \E j \in Positions("QueueSubmit") :
        /\ j < n
        /\ \A k \in Positions("QueueSubmit") : k < n => k <= j
        /\ calls[j].params.fenceWas = "unsignaled"
        /\ \A k \in Positions("ResetFences") : ~(j < k /\ k < n)

\* A submission of the command buffer is pending after the first n calls.
\* An entry point is entered with none pending: the second conjunct of the
\* claim says that every entry point leaves none behind.
RECURSIVE SubmitPending(_)
SubmitPending(n) ==
    IF n = 0 THEN FALSE
    ELSE LET c == calls[n]
         IN IF c.fn = "QueueSubmit" THEN TRUE
            ELSE IF c.fn = "WaitForFences" /\ WaitCovers(n) THEN FALSE
            ELSE SubmitPending(n - 1)

\* C27: the command buffer is reset or begun only when no earlier submission
\* of it is pending, within a present and from one present to the next.
C27_NoRecordingWhilePending ==
    /\ \A n \in Positions("ResetCommandBuffer") \cup Positions("BeginCommandBuffer") :
           ~SubmitPending(n - 1)
    /\ ~SubmitPending(Len(calls))

\* An augmented present that recorded and submitted the buffer twice.
C27_Witness ==
    /\ IsPresentOp
    /\ Len(SubmitCalls) = 2
    /\ Cardinality(Positions("ResetCommandBuffer")) = 2
    /\ pre.hasPrev

\* ------------------------------------------------------------------ C28
\* C28: no next-layer or driver function is called while the registry lock is
\* held.  The one call the model makes under the lock is that of
\* findMemoryType.
C28_NoCallUnderLock ==
    \A n \in Positions("GetPhysicalDeviceMemoryProperties") : ~calls[n].params.locked

\* ------------------------------------------------------------------ C30
\* The handles a device record owns: the images and memory of the mirror,
\* the fence and the command pool.
Held(d) ==
    {<<"image", d[slot].image>> : slot \in {s \in {"prevFrame", "curFrame"} :
                                              d[s].image # VK_NULL_HANDLE}}
    \cup {<<"memory", d[slot].memory>> : slot \in {s \in {"prevFrame", "curFrame"} :
                                              d[s].memory # VK_NULL_HANDLE}}
    \cup {<<"fence", 1>>, <<"cmdPool", 1>>}

\* The handles a call works on.
UsedBy(c) ==
    CASE c.fn = "CmdPipelineBarrier" ->
           IF c.params.image.kind = "staging" THEN {<<"image", c.params.image.id>>} ELSE {}
      [] c.fn = "CmdCopyImage" -> {<<"image", c.params.dst.id>>}
      [] c.fn = "CmdBlitImage" -> {<<"image", c.params.src.id>>}
      [] c.fn = "BindImageMemory" -> {<<"image", c.params>>, <<"memory", c.params>>}
      [] c.fn \in {"WaitForFences", "ResetFences", "QueueSubmit", "AcquireNextImageKHR"} ->
           {<<"fence", 1>>}
      [] c.fn \in {"ResetCommandBuffer", "BeginCommandBuffer", "EndCommandBuffer"} ->
           {<<"cmdPool", 1>>}
      [] OTHER -> {}

Releases ==
    [DestroyImage |-> "image", FreeMemory |-> "memory",
     DestroyFence |-> "fence", DestroyCommandPool |-> "cmdPool"]

\* The handles alive after the first n calls of the entry point, and whether
\* every call so far was in order: a creation gives a handle that was not
\* alive, a release or a use names one that is.  vkGetImageMemoryRequirements
\* follows each successful vkCreateImage and names the image it created.
RECURSIVE HandlesAfter(_)
HandlesAfter(n) ==
    IF n = 0 THEN [live |-> Held(pre), ok |-> TRUE]
    ELSE LET h == HandlesAfter(n - 1)
             c == calls[n]
         IN CASE c.fn = "GetImageMemoryRequirements" ->
                   [live |-> h.live \cup {<<"image", c.params>>},
                    ok |-> h.ok /\ <<"image", c.params>> \notin h.live]
              [] c.fn = "AllocateMemory" /\ c.res = VK_SUCCESS ->
                   [live |-> h.live \cup {<<"memory", c.params>>},
                    ok |-> h.ok /\ <<"memory", c.params>> \notin h.live]
              [] c.fn \in DOMAIN Releases ->
                   [live |-> h.live \ {<<Releases[c.fn], c.params>>},
                    ok |-> h.ok /\ <<Releases[c.fn], c.params>> \in h.live]
              [] OTHER ->
                   [live |-> h.live, ok |-> h.ok /\ UsedBy(c) \subseteq h.live]

\* C30: every staging image, staging memory, fence and command pool the
\* engine created is released exactly once and never used or released after
\* that: whatever is alive when an entry point returns is owned by the device
\* record, and nothing is alive when onDestroyDevice calls the next layer's
\* vkDestroyDevice.
C30_ReleasedExactlyOnce ==
    /\ HandlesAfter(Len(calls)).ok
    /\ (op.name # "DestroyDevice" => HandlesAfter(Len(calls)).live = Held(dev))
    /\ \A n \in Positions("DestroyDevice") : HandlesAfter(n - 1).live = {}

\* The device is destroyed while it holds a complete mirror.
C30_Witness ==
    /\ op.name = "DestroyDevice"
    /\ pre.prevFrame.valid /\ pre.curFrame.valid
    /\ Cardinality(Positions("DestroyImage")) = 2
    /\ Cardinality(Positions("FreeMemory")) = 2
    /\ Positions("DestroyFence") # {}

\* ------------------------------------------------------------------ frame queue
\* FrameQueue<8> capturedQueue_: one thread in push, one in pop, and a call of
\* size() made by either of them or by a third thread.  Each atomic load or
\* store is one step; the copy of a FrameData into or out of a slot is not
\* atomic and takes two, one per half of the structure.
Capacity == 8
\* Number of push calls the producer makes.
MaxPushes == 10

\* The frame of the n-th push call, and a slot nothing was written to.
Frame(n) == [lo |-> n, hi |-> n]
NoFrame == [lo |-> 0, hi |-> 0]
Slots == 0..(Capacity - 1)

\* Variant of push that never finds the queue full.
FullNever(next, tail) == FALSE
\* push: `next == tail_.load(acquire)`.
Full(next, tail) == next = tail
\* pop: `tail == head_.load(acquire)`.
Empty(tail, head) == tail = head

InPush(pc, head, next, frame) == [pc |-> pc, head |-> head, next |-> next, frame |-> frame]
InPop(pc, tail, frame) == [pc |-> pc, tail |-> tail, frame |-> frame]
NotInPush == InPush("out", 0, 0, NoFrame)
NotInPop == InPop("out", 0, NoFrame)

\* size without the branch for a head that has wrapped around.
sizeNoWrap(head, tail) == head - tail
\* size, line 65.
size(head, tail) == IF head >= tail THEN head - tail ELSE Capacity - tail + head

\* The threads that call size(): the producer and the consumer between their
\* own calls, and a thread that only watches the queue.
Callers == {"producer", "consumer", "observer"}
\* The call of size() in progress or just returned: its caller, its local
\* head, its return value, and (ghost) the least and the greatest number of
\* frames the queue held since the call began.
InSize(caller, pc, head, lo, hi, value) ==
    [caller |-> caller, pc |-> pc, head |-> head, lo |-> lo, hi |-> hi,
     value |-> value]
NotInSize == InSize("none", "out", 0, 0, 0, 0)
Busy(caller) == sizer.pc = "loadTail" /\ sizer.caller = caller
\* Ghost: the queue holds n frames from now on.
Witnessed(n) ==
    IF sizer.pc = "loadTail"
    THEN [sizer EXCEPT !.lo = Min(@, n), !.hi = Max(@, n)]
    ELSE sizer

PushCalls == Len(accepted) + droppedFrames_

QueueInit ==
    /\ enabled = TRUE
    /\ dev = NewDevice
    /\ unaugmented = {}
    /\ pResults = <<>>
    /\ op = Idle
    /\ pre = NewDevice
    /\ calls = <<>>
    /\ ret = VK_SUCCESS
    /\ RegistryAtRest
    /\ TimingAtRest
    /\ LockAtRest
    /\ buffer_ = [i \in Slots |-> NoFrame]
    /\ head_ = 0
    /\ tail_ = 0
    /\ droppedFrames_ = 0
    /\ producer = NotInPush
    /\ consumer = NotInPop
    /\ accepted = <<>>
    /\ popped = <<>>
    /\ sizer = NotInSize
    /\ PresenterAtRest

QueueFrame ==
    UNCHANGED <<layerVars, registryVars, timingVars, lockVars, presenterVars,
                op, pre, calls, ret>>

\* push, line 28-29: head_.load(relaxed), next.
PushLoadHead ==
    /\ producer.pc = "out"
    /\ ~Busy("producer")
    /\ PushCalls < MaxPushes
    /\ producer' = InPush("loadTail", head_, (head_ + 1) % Capacity, Frame(PushCalls + 1))
    /\ UNCHANGED <<buffer_, head_, tail_, droppedFrames_, consumer, accepted, popped, sizer>>
    /\ QueueFrame

\* push, line 31-35: tail_.load(acquire); full: count the drop, return false.
PushLoadTail ==
    /\ producer.pc = "loadTail"
    /\ IF Full(producer.next, tail_)
       THEN /\ droppedFrames_' = droppedFrames_ + 1
            /\ producer' = NotInPush
       ELSE /\ producer' = [producer EXCEPT !.pc = "copyLo"]
            /\ UNCHANGED droppedFrames_
    /\ UNCHANGED <<buffer_, head_, tail_, consumer, accepted, popped, sizer>>
    /\ QueueFrame

\* push, line 37: buffer_[head] = frame, first half.
PushCopyLo ==
    /\ producer.pc = "copyLo"
    /\ buffer_' = [buffer_ EXCEPT ![producer.head].lo = producer.frame.lo]
    /\ producer' = [producer EXCEPT !.pc = "copyHi"]
    /\ UNCHANGED <<head_, tail_, droppedFrames_, consumer, accepted, popped, sizer>>
    /\ QueueFrame

\* push, line 37: second half.
PushCopyHi ==
    /\ producer.pc = "copyHi"
    /\ buffer_' = [buffer_ EXCEPT ![producer.head].hi = producer.frame.hi]
    /\ producer' = [producer EXCEPT !.pc = "storeHead"]
    /\ UNCHANGED <<head_, tail_, droppedFrames_, consumer, accepted, popped, sizer>>
    /\ QueueFrame

\* push, line 38-39: head_.store(next, release); return true.
PushStoreHead ==
    /\ producer.pc = "storeHead"
    /\ head_' = producer.next
    /\ accepted' = Append(accepted, producer.frame)
    /\ producer' = NotInPush
    /\ sizer' = Witnessed(Len(accepted) + 1 - Len(popped))
    /\ UNCHANGED <<buffer_, tail_, droppedFrames_, consumer, popped>>
    /\ QueueFrame

\* pop, line 43: tail_.load(relaxed).
PopLoadTail ==
    /\ consumer.pc = "out"
    /\ ~Busy("consumer")
    /\ consumer' = InPop("loadHead", tail_, NoFrame)
    /\ UNCHANGED <<buffer_, head_, tail_, droppedFrames_, producer, accepted, popped, sizer>>
    /\ QueueFrame

\* pop, line 45-47: head_.load(acquire); empty: return nullopt.
PopLoadHead ==
    /\ consumer.pc = "loadHead"
    /\ consumer' = IF Empty(consumer.tail, head_)
                   THEN NotInPop
                   ELSE [consumer EXCEPT !.pc = "copyLo"]
    /\ UNCHANGED <<buffer_, head_, tail_, droppedFrames_, producer, accepted, popped, sizer>>
    /\ QueueFrame

\* pop, line 49: frame = buffer_[tail], first half.
PopCopyLo ==
    /\ consumer.pc = "copyLo"
    /\ consumer' = [consumer EXCEPT !.pc = "copyHi",
                                    !.frame.lo = buffer_[consumer.tail].lo]
    /\ UNCHANGED <<buffer_, head_, tail_, droppedFrames_, producer, accepted, popped, sizer>>
    /\ QueueFrame

\* pop, line 49: second half.
PopCopyHi ==
    /\ consumer.pc = "copyHi"
    /\ consumer' = [consumer EXCEPT !.pc = "storeTail",
                                    !.frame.hi = buffer_[consumer.tail].hi]
    /\ UNCHANGED <<buffer_, head_, tail_, droppedFrames_, producer, accepted, popped, sizer>>
    /\ QueueFrame

\* pop, line 50-51: tail_.store((tail + 1) % Capacity, release); return frame.
PopStoreTail ==
    /\ consumer.pc = "storeTail"
    /\ tail_' = (consumer.tail + 1) % Capacity
    /\ popped' = Append(popped, consumer.frame)
    /\ consumer' = NotInPop
    /\ sizer' = Witnessed(Len(accepted) - (Len(popped) + 1))
    /\ UNCHANGED <<buffer_, head_, droppedFrames_, producer, accepted>>
    /\ QueueFrame

\* size, line 63: head_.load(acquire).
SizeLoadHead ==
    /\ sizer.pc # "loadTail"
    /\ \E caller \in Callers :
         /\ caller = "producer" => producer.pc = "out"
         /\ caller = "consumer" => consumer.pc = "out"
         /\ sizer' = InSize(caller, "loadTail", head_,
                            Len(accepted) - Len(popped),
                            Len(accepted) - Len(popped), 0)
    /\ UNCHANGED <<buffer_, head_, tail_, droppedFrames_, producer, consumer,
                   accepted, popped>>
    /\ QueueFrame

\* size, line 64-65: tail_.load(acquire); return the difference.
SizeLoadTail ==
    /\ sizer.pc = "loadTail"
    /\ sizer' = [sizer EXCEPT !.pc = "returned",
                              !.value = size(sizer.head, tail_)]
    /\ UNCHANGED <<buffer_, head_, tail_, droppedFrames_, producer, consumer,
                   accepted, popped>>
    /\ QueueFrame

QueueNext ==
    \/ PushLoadHead
    \/ PushLoadTail
    \/ PushCopyLo
    \/ PushCopyHi
    \/ PushStoreHead
    \/ PopLoadTail
    \/ PopLoadHead
    \/ PopCopyLo
    \/ PopCopyHi
    \/ PopStoreTail
    \/ SizeLoadHead
    \/ SizeLoadTail

QueueSpec == QueueInit /\ [][QueueNext]_vars

\* ------------------------------------------------------------------ C21
IsPrefix(s, t) == Len(s) <= Len(t) /\ \A i \in 1..Len(s) : s[i] = t[i]
CopyingIn == producer.pc \in {"copyLo", "copyHi"}
CopyingOut == consumer.pc \in {"copyLo", "copyHi"}

\* C21: with one thread in push and one in pop, under every interleaving the
\* frames pop returned are a prefix of the frames push accepted (none lost,
\* duplicated or reordered; the frames not yet popped are exactly those
\* between tail_ and head_), and pop never copies out of a slot the producer
\* is still writing.
C21_PoppedIsPrefixOfAccepted ==
    /\ IsPrefix(popped, accepted)
    /\ Len(accepted) - Len(popped) = (head_ + Capacity - tail_) % Capacity
    /\ (CopyingOut /\ CopyingIn) => producer.head # consumer.tail
    /\ consumer.pc = "storeTail" => consumer.frame = accepted[Len(popped) + 1]

\* The ring has wrapped: a slot is in use for the second time, a push was
\* refused on the way, and the frame just popped came out of a reused slot.
C21_Witness ==
    /\ Len(popped) > Capacity
    /\ droppedFrames_ > 0
    /\ consumer.pc = "out" /\ producer.pc = "out"
    /\ popped = accepted

\* ------------------------------------------------------------------ mutex_
\* Host threads inside the layer.  An entry point is the sequence of its
\* steps that matter to mutex_: taking it (the lock_guard constructor), giving
\* it back (the end of the guarded block), an access to one of the three maps
\* and a call into the next layer.
Threads == {"t1", "t2"}
Take == [kind |-> "lock"]
Give == [kind |-> "unlock"]
Access(map, write) == [kind |-> "access", map |-> map, write |-> write]
CallNext == [kind |-> "call"]

\* getDeviceData, line 373-376: devices_[key] inserts a missing key.
getDeviceDataSteps == <<Take, Access("devices_", TRUE), Give>>

Steps ==
    [onCreateInstance |->      \* line 386-429
        <<CallNext, Take, Access("instances_", TRUE), Give>>,
     onDestroyInstance |->     \* line 431-440
        <<Take, Access("instances_", TRUE), Give, CallNext>>,
     onCreateDevice |->        \* line 445-543
        <<CallNext, Take, Access("devices_", TRUE), Give>>,
     onDestroyDevice |->       \* line 545-565
        <<Take, Access("devices_", TRUE), Give, CallNext>>,
     onCreateSwapchain |->     \* line 570-617
        getDeviceDataSteps \o <<CallNext, Take, Access("swapchains", TRUE), Give>>,
     onDestroySwapchain |->    \* line 619-632
        getDeviceDataSteps \o <<Take, Access("swapchains", TRUE), Give, CallNext>>,
     onQueuePresent |->        \* line 637-663
        getDeviceDataSteps \o <<Take, Access("swapchains", FALSE), Give, CallNext>>,
     findMemoryType |->        \* line 958-980
        <<Take, Access("instances_", FALSE), CallNext, Give>>,
     getDeviceProcAddr |->     \* line 1016-1017, a name the layer does not intercept
        <<Access("devices_", TRUE), CallNext>>,
     getInstanceProcAddr |->   \* line 1048-1049, the same
        <<Access("instances_", TRUE), CallNext>>]

EntryPoints == DOMAIN Steps
Outside == [entry |-> "none", pc |-> 0]
Running(t) == threads[t].entry # "none"
\* The step thread t is about to complete.
StepOf(t) == Steps[threads[t].entry][threads[t].pc]
Advance(t) ==
    threads' = [threads EXCEPT ![t] =
                  IF threads[t].pc = Len(Steps[threads[t].entry])
                  THEN Outside
                  ELSE [threads[t] EXCEPT !.pc = threads[t].pc + 1]]

LockFrame == UNCHANGED <<layerVars, registryVars, timingVars, queueVars, op, pre, calls, ret>>

LockInit ==
    /\ enabled = TRUE
    /\ dev = NewDevice
    /\ unaugmented = {}
    /\ pResults = <<>>
    /\ op = Idle
    /\ pre = NewDevice
    /\ calls = <<>>
    /\ ret = VK_SUCCESS
    /\ RegistryAtRest
    /\ TimingAtRest
    /\ QueueAtRest
    /\ mutex_ = "free"
    /\ threads = [t \in Threads |-> Outside]

\* The host calls an entry point on thread t.
Enter ==
    \E t \in Threads, e \in EntryPoints :
        /\ ~Running(t)
        /\ threads' = [threads EXCEPT ![t] = [entry |-> e, pc |-> 1]]
        /\ UNCHANGED mutex_
        /\ LockFrame

\* std::lock_guard<std::mutex> lock(mutex_): blocks while another holds it.
Lock ==
    \E t \in Threads :
        /\ Running(t) /\ StepOf(t).kind = "lock"
        /\ mutex_ = "free"
        /\ mutex_' = t
        /\ Advance(t)
        /\ LockFrame

Unlock ==
    \E t \in Threads :
        /\ Running(t) /\ StepOf(t).kind = "unlock"
        /\ mutex_' = "free"
        /\ Advance(t)
        /\ LockFrame

\* The map access of thread t completes.
MapAccess ==
    \E t \in Threads :
        /\ Running(t) /\ StepOf(t).kind = "access"
        /\ Advance(t)
        /\ UNCHANGED mutex_
        /\ LockFrame

NextLayerCall ==
    \E t \in Threads :
        /\ Running(t) /\ StepOf(t).kind = "call"
        /\ Advance(t)
        /\ UNCHANGED mutex_
        /\ LockFrame

LockNext ==
    \/ Enter
    \/ Lock
    \/ Unlock
    \/ MapAccess
    \/ NextLayerCall

LockSpec == LockInit /\ [][LockNext]_vars

\* ------------------------------------------------------------------ C29
Accessing(t) == Running(t) /\ StepOf(t).kind = "access"

\* C29: every read or write of instances_, devices_ and a device's swapchains
\* map is made by a thread that holds mutex_.
C29_MapAccessUnderLock ==
    \A t \in Threads : Accessing(t) => mutex_ = t

\* ------------------------------------------------------------------ C22
IsLookup == op.name \in {"GetDeviceProcAddr", "GetInstanceProcAddr"}
RegistryUnchanged == instances_ = pre.instances_ /\ devices_ = pre.devices_
\* The lookup handed the name to the next-layer proc-address function of the
\* record and returned its answer.
Delegated ==
    /\ ret = NextEntry(op.info.key, op.info.pName)
    /\ calls = <<Call(op.name, op.info.pName)>>

\* C22 as stated: for each of the thirteen intercepted names both lookups
\* return the layer's own entry point; any other name is delegated; no record
\* changes.
C22_InterceptedSetOwnEntry ==
    IsLookup =>
        /\ RegistryUnchanged
        /\ IF op.info.pName \in InterceptedInstanceNames
           THEN ret = LayerEntry(op.info.pName) /\ calls = <<>>
           ELSE Delegated

\* C22, amended: the instance lookup answers the thirteen names itself, the
\* device lookup the five device-level ones among them; every other name,
\* on the handle of a live object, is delegated; no record changes.
C22_LookupRouting ==
    IsLookup =>
        LET own == IF op.name = "GetInstanceProcAddr"
                   THEN InterceptedInstanceNames ELSE InterceptedDeviceNames
        IN /\ RegistryUnchanged
           /\ IF op.info.pName \in own
              THEN ret = LayerEntry(op.info.pName) /\ calls = <<>>
              ELSE Delegated

\* The device lookup was asked for an instance-level name of the set and
\* passed it on.
C22_Witness ==
    /\ op.name = "GetDeviceProcAddr"
    /\ op.info.pName = "vkCreateDevice"
    /\ Delegated

\* ------------------------------------------------------------------ C23
\* op.info: the count and the array as passed; op.drv: as the call left them.
IsEnumeration == op.name = "EnumerateInstanceLayerProperties"
Repeated == EnumerateInstanceLayerProperties(op.drv.pPropertyCount, op.drv.pProperties)

\* C23: layer-property enumeration changes no layer state; with an array and
\* a count of 0 it returns VK_INCOMPLETE and writes nothing; with no array it
\* sets the count to 1; with an array and a count of at least 1 it writes the
\* one layer entry and sets the count to 1; the same call made again, on
\* what the first one left, returns the same result and leaves the same.
C23_EnumerationIdempotent ==
    IsEnumeration =>
        /\ instances_ = pre.instances_ /\ devices_ = pre.devices_
        /\ (op.info.pProperties # NoBuffer /\ op.info.pPropertyCount = 0) =>
              /\ ret = VK_INCOMPLETE
              /\ op.drv.pProperties = op.info.pProperties
        /\ op.info.pProperties = NoBuffer =>
              /\ ret = VK_SUCCESS
              /\ op.drv.pPropertyCount = 1
        /\ (op.info.pProperties # NoBuffer /\ op.info.pPropertyCount >= 1) =>
              /\ ret = VK_SUCCESS
              /\ op.drv.pPropertyCount = 1
              /\ op.drv.pProperties = [op.info.pProperties EXCEPT ![1] = layerProps]
        /\ Repeated = [ret |-> ret, count |-> op.drv.pPropertyCount,
                       properties |-> op.drv.pProperties]

\* The host passed room for two entries; one was written and the count
\* came back as 1.
C23_Witness ==
    /\ IsEnumeration
    /\ op.info.pPropertyCount = 2
    /\ op.info.pProperties # NoBuffer
    /\ op.info.pProperties[1] = Unwritten
    /\ op.drv.pProperties[1] = layerProps
    /\ op.drv.pPropertyCount = 1

\* ------------------------------------------------------------------ C31
StagingDestroys == Positions("DestroyImage") \cup Positions("FreeMemory")
\* A vkDeviceWaitIdle of the same entry point returned before call n and
\* nothing was submitted in between.
IdleBefore(n) ==
    \E m \in Positions("DeviceWaitIdle") :
        /\ m < n
        /\ \A k \in Positions("QueueSubmit") : ~(m < k /\ k < n)

\* C31: when a staging image or its memory is destroyed no submitted command
\* buffer is pending; on a mirror resize the destroys follow a
\* vkDeviceWaitIdle of the same ensureStaging; every submit has been waited
\* on when its entry point returns, so none is pending when onDestroyDevice
\* destroys the images.
C31_DestroyedOnlyWhenIdle ==
    /\ \A n \in StagingDestroys : ~SubmitPending(n - 1)
    /\ op.name # "DestroyDevice" => \A n \in StagingDestroys : IdleBefore(n)
    /\ ~SubmitPending(Len(calls))

\* A present resizes a mirror that was in use.
C31_Witness ==
    /\ IsPresentOp
    /\ pre.curFrame.valid /\ pre.hasPrev
    /\ Cardinality(Positions("DestroyImage")) = 2
    /\ Positions("DeviceWaitIdle") # {}
    /\ Positions("QueueSubmit") # {}

\* ------------------------------------------------------------------ C32
\* The present reached ensureStaging; it was called on the record as the
\* present found it, with the size and format of the first chain.
EnsureRan == IsPresentOp /\ op.path \in {"staging_not_ready", "first", "augmented"}
EnsuredChain == pre.swapchains[FirstChain]
MirrorComplete ==
    /\ pre.prevFrame.valid /\ pre.curFrame.valid
    /\ pre.captureW = EnsuredChain.width /\ pre.captureH = EnsuredChain.height
    /\ pre.captureFormat = EnsuredChain.format
EnsureNoOp(e) ==
    /\ e.calls = <<>>
    /\ e.dev.prevFrame = pre.prevFrame /\ e.dev.curFrame = pre.curFrame
    /\ e.dev.hasPrev = pre.hasPrev
EnsureResults ==
    {ensureStaging(pre, EnsuredChain.width, EnsuredChain.height, EnsuredChain.format, o) :
        o \in StagingAnswers(pre, EnsuredChain.width, EnsuredChain.height,
                             EnsuredChain.format)}

\* C32: ensureStaging does nothing (no next-layer call, images and hasPrev
\* unchanged) exactly when both staging images exist and the mirror has the
\* size and format asked for; in every other case hasPrev is false when it
\* returns.
C32_NoOpExactlyWhenComplete ==
    EnsureRan =>
        \A e \in EnsureResults :
            /\ EnsureNoOp(e) <=> MirrorComplete
            /\ ~MirrorComplete => ~e.dev.hasPrev

\* ------------------------------------------------------------------ C33
StagingTransfers == Positions("CmdCopyImage") \cup Positions("CmdBlitImage")
\* The staging image a copy writes or a blit reads.
StagingOperand(c) == IF c.fn = "CmdCopyImage" THEN c.params.dst.id ELSE c.params.src.id

\* C33: whenever onQueuePresent records a copy or a blit on a staging image,
\* both staging images are valid, the image is one of the two, and the
\* size and format the mirror is recorded for are those of the chain being
\* presented.
C33_TransfersOnMatchingMirror ==
    \A n \in StagingTransfers :
        /\ IsPresentOp
        /\ dev.prevFrame.valid /\ dev.curFrame.valid
        /\ StagingOperand(calls[n]) \in {dev.prevFrame.image, dev.curFrame.image}
        /\ dev.captureW = pre.swapchains[FirstChain].width
        /\ dev.captureH = pre.swapchains[FirstChain].height
        /\ dev.captureFormat = pre.swapchains[FirstChain].format

\* A present on a chain of another size than the one the mirror was in use
\* for: the mirror is rebuilt and the frame is captured into it.
C33_Witness ==
    /\ NonBypass
    /\ pre.prevFrame.valid /\ pre.curFrame.valid /\ pre.hasPrev
    /\ pre.captureW # pre.swapchains[FirstChain].width
    /\ Positions("CmdCopyImage") # {}

\* ------------------------------------------------------------------ C34
\* The next-layer calls of a present that can wait on semaphores, in order,
\* and how many semaphores each waits on.
WaitingCalls == SelectSeq(calls, LAMBDA c : c.fn \in {"QueueSubmit", "QueuePresentKHR"})
Waits(c) == c.params.waitSemaphoreCount

\* C34: in a present that is not bypassed the first submit waits on all the
\* caller's wait semaphores and no later submit or present of the engine
\* waits on any: each is waited on by exactly one next-layer call.
C34_SemaphoresWaitedOnce ==
    NonBypass =>
        /\ WaitingCalls[1].fn = "QueueSubmit"
        /\ Waits(WaitingCalls[1]) = op.info.waitSemaphoreCount
        /\ \A i \in 2..Len(WaitingCalls) : Waits(WaitingCalls[i]) = 0

\* A present with a wait semaphore that went through both submits and both
\* presents.
C34_Witness ==
    /\ NonBypass
    /\ op.info.waitSemaphoreCount = 1
    /\ Len(WaitingCalls) = 4

\* ------------------------------------------------------------------ C35
SettingsKept ==
    /\ calls = <<>>
    /\ state_.currentScale = pre.currentScale
    /\ state_.currentQuality = pre.currentQuality
\* The sample was taken with thermal protection on at a temperature in the
\* throttling band: 75 degrees or more, below the critical 85.
InThrottleBand == IsFrameComplete /\ config_.thermal_protection /\ op.temp >= 75 /\ op.temp < 85

\* C35: at 75 degrees or more and below the critical temperature the third
\* over-budget sample in a row steps quality down by 0.15 and scale by 0.10
\* (clamped at the minima) and resets both counters; the first and the second
\* do not step down.
C35_ThirdOverBudgetWhenHot ==
    InThrottleBand =>
        /\ op.streak >= 3 => SteppedDownFrom(pre)
        /\ op.streak \in 1..2 => SettingsKept

\* ------------------------------------------------------------------ C36
\* The sample completed a run of thirty or more samples on budget since the
\* last step, and the average of the history is below 70 % of the budget.
StepUpDue ==
    /\ op.under >= 30
    /\ 10 * HistorySum(frameHistory_) < 7 * state_.targetMs * HistorySize(frameHistory_)
SteppedUp == calls = <<Call("adjustQuality", FALSE)>>
SteppedUpFrom(p) ==
    /\ state_.currentScale = Min(75, p.currentScale + 5)
    /\ state_.currentQuality = Min(100, p.currentQuality + 5)
    /\ config_.model_scale = state_.currentScale
    /\ config_.quality = state_.currentQuality
    /\ state_.consecutiveOverBudget = 0
    /\ state_.consecutiveUnderBudget = 0
AboveCritical == config_.thermal_protection /\ op.temp > 85

TemperatureUnknown ==
    IsFrameComplete /\ (~config_.thermal_protection \/ op.temp = 0)
OnBudget == op.frameTimeMs <= state_.targetMs

\* C37: a sample taken with thermal protection off, whatever the sensor
\* holds, or with an unknown temperature, is treated by the budget rules
\* alone: step-down with a return of false at five or more over-budget samples
\* in a row, step-up at thirty samples on budget with the average below
\* 70 % of the budget, otherwise settings kept, the counters counting the
\* run and the return value telling whether the sample was on budget; the
\* throttled flag is false.
C37_TemperatureWithoutEffect ==
    TemperatureUnknown =>
        /\ state_.throttled = FALSE
        /\ IF op.streak >= 5 THEN SteppedDownFrom(pre) /\ ret = FALSE
           ELSE IF StepUpDue THEN SteppedUp /\ SteppedUpFrom(pre) /\ ret = TRUE
           ELSE /\ SettingsKept
                /\ state_.consecutiveOverBudget = op.streak
                /\ state_.consecutiveUnderBudget = op.under
                /\ ret = OnBudget

\* With thermal protection on, the third over-budget sample in a row, read at
\* an unknown temperature after a throttled one, changes nothing.
C37_Witness ==
    /\ IsFrameComplete
    /\ config_.thermal_protection
    /\ op.temp = 0
    /\ op.streak = 3
    /\ op.run = -1
    /\ SettingsKept
    /\ state_.throttled = FALSE

\* ------------------------------------------------------------------ C38
\* C38: a present issued while the controller's throttled flag is set, before
\* any step-up, is bypassed: no stage B1 synthesis, no synthesised present.
C38_ThrottledPresentsBypassed ==
    (IsPresentOp /\ state_.throttled) =>
        /\ ~NonBypass
        /\ ~op.stageB1
        /\ op.interps = 0

\* ------------------------------------------------------------------ C40
\* A call of size() has returned; empty() and full() as they derive from it.
SizeReturned == sizer.pc = "returned"
EmptyReported == sizer.value = 0
FullReported == sizer.value = Capacity - 1
\* The returned value is a number of frames the queue held at some instant of
\* the call, and so are the states empty() and full() report.
HeldDuringCall ==
    /\ sizer.value \in sizer.lo..sizer.hi
    /\ EmptyReported => sizer.lo = 0
    /\ ~EmptyReported => sizer.hi > 0
    /\ FullReported => sizer.hi = Capacity - 1
    /\ ~FullReported => sizer.lo < Capacity - 1

PushedAt(n) == {i \in 1..Len(pushes) : pushes[i] = Original(n)}
OriginalsBefore(i) == {j \in 1..(i - 1) : ~pushes[j].is_interpolated}
OriginalsAfter(i) == {j \in (i + 1)..Len(pushes) : ~pushes[j].is_interpolated}
Greatest(S) == CHOOSE x \in S : \A y \in S : y <= x
Least(S) == CHOOSE x \in S : \A y \in S : x <= y

\* C39: every captured frame the loop has taken is pushed to the present
\* queue exactly once (the frame taken last may still await its push), the
\* captured frames are pushed in capture order, and every interpolated frame
\* stands between the two captured frames it was generated from.
C39_OriginalsOnceInOrder ==
    /\ \A n \in 1..(taken - 1) : Cardinality(PushedAt(n)) = 1
    /\ Cardinality(PushedAt(taken)) <= 1
    /\ \A i, j \in 1..Len(pushes) :
          (i < j /\ ~pushes[i].is_interpolated /\ ~pushes[j].is_interpolated)
              => pushes[i].frame_index < pushes[j].frame_index
    /\ \A i \in 1..Len(pushes) :
          pushes[i].is_interpolated =>
              /\ OriginalsBefore(i) # {}
              /\ pushes[Greatest(OriginalsBefore(i))].frame_index = pushes[i].from[1]
              /\ OriginalsAfter(i) # {} =>
                    pushes[Least(OriginalsAfter(i))].frame_index = pushes[i].from[2]

====
